---- MODULE Spec2Model ----
(***************************************************************************)
(* A model of the Neugram scanner (src/parser/scanner.go), of the shell    *)
(* parameter expansion in the same file, and of the Go code generator      *)
(* GenGo (src/unnamed/part_000).                                           *)
(*                                                                         *)
(* The scanner is modelled at the granularity of its calls to s.next():    *)
(* every action is the code that runs between two such calls, so that the  *)
(* blocking exchange on needSrc/addSrc and the loops of the scan functions *)
(* are visible.  Source bytes are one-character strings; the rune -1 that  *)
(* marks end of input is EOF and the zero rune is NUL.                     *)
(***************************************************************************)
EXTENDS Integers, Sequences, FiniteSets, TLC

VARIABLES
    s,        \* the Scanner struct
    pc,       \* where the goroutine running Next() stands
    loc,      \* the locals of Next() and of the scan function it is in
    ret,      \* where the pending s.next() call returns to
    profile,  \* the family of chunks the driver draws from
    sent,     \* number of non-nil chunks the driver has sent on addSrc
    hist,     \* what the caller of Next() has observed (history)
    gen,      \* the state of the code generator (see GenGo below)
    xp        \* the state of a call of ExpandParams (see below)

scanVars == <<s, pc, loc, ret, profile, sent, hist>>
vars == <<s, pc, loc, ret, profile, sent, hist, gen, xp>>

----------------------------------------------------------------------------
(* Bounds                                                                  *)

\* the driver sends at most MaxChunks non-nil chunks before end of input
MaxChunks == 4

----------------------------------------------------------------------------
(* Runes and bytes                                                         *)

EOF == "EOF"
NUL == "NUL"
\* the byte 0x60, which a TLA+ string cannot hold
Backquote == "bq"

Letters ==
    {"a", "b", "c", "d", "e", "f", "g", "h", "i", "j", "k", "l", "m", "n",
     "o", "p", "q", "r", "s", "t", "u", "v", "w", "x", "y", "z",
     "A", "B", "C", "D", "E", "F", "X"}
Digits == {"0", "1", "2", "3", "4", "5", "6", "7", "8", "9"}
OctDigits == {"0", "1", "2", "3", "4", "5", "6", "7"}
HexDigits == Digits \cup {"a", "b", "c", "d", "e", "f", "A", "B", "C", "D", "E", "F"}

\* bytes >= 0x80: the three bytes of U+FEFF, a two-byte rune, a stray byte
BomBytes == <<"xEF", "xBB", "xBF">>
TwoBytes == <<"xC3", "xA9">>
HighBytes == {"xEF", "xBB", "xBF", "xC3", "xA9", "xFF"}
BOM == "uFEFF"
RuneError == "uFFFD"

IsLetter(r) == r \in Letters \cup {"u00E9"}
IsDigit(r) == r \in Digits
\* r > 0
Positive(r) == r \notin {EOF, NUL}

\* s.src[a:b] with Go's bounds; callers check SliceOK first
Slice(src, a, b) == SubSeq(src, a + 1, b)
SliceOK(src, a, b) == 0 <= a /\ a <= b /\ b <= Len(src)

IsPrefixAt(p, src, off) ==
    /\ off + Len(p) <= Len(src)
    /\ \A i \in 1..Len(p) : src[off + i] = p[i]

\* utf8.DecodeRune(s.src[s.off:]) for a first byte >= 0x80
DecodeRune(src, off) ==
    IF IsPrefixAt(BomBytes, src, off) THEN [r |-> BOM, w |-> 3]
    ELSE IF IsPrefixAt(TwoBytes, src, off) THEN [r |-> "u00E9", w |-> 2]
    ELSE [r |-> RuneError, w |-> 1]

----------------------------------------------------------------------------
(* Tokens and literals                                                     *)

NoLit == [kind |-> "nil", v |-> <<>>]
StrLit(v) == [kind |-> "string", v |-> v]
NumLit(k, v) == [kind |-> k, v |-> v]

Str(w) ==
    CASE w = "break" -> <<"b", "r", "e", "a", "k">>
      [] w = "continue" -> <<"c", "o", "n", "t", "i", "n", "u", "e">>
      [] w = "fallthrough" -> <<"f", "a", "l", "l", "t", "h", "r", "o", "u", "g", "h">>
      [] w = "return" -> <<"r", "e", "t", "u", "r", "n">>
      [] w = "if" -> <<"i", "f">>
      [] w = "for" -> <<"f", "o", "r">>
      [] w = "func" -> <<"f", "u", "n", "c">>
      [] w = "go" -> <<"g", "o">>
      [] w = "var" -> <<"v", "a", "r">>

\* token.Keyword: the keyword token of an identifier, or Unknown
Keyword(lit) ==
    CASE lit = Str("break") -> "Break"
      [] lit = Str("continue") -> "Continue"
      [] lit = Str("fallthrough") -> "Fallthrough"
      [] lit = Str("return") -> "Return"
      [] lit = Str("if") -> "If"
      [] lit = Str("for") -> "For"
      [] lit = Str("func") -> "Func"
      [] lit = Str("go") -> "Go"
      [] lit = Str("var") -> "Var"
      [] OTHER -> "Unknown"

----------------------------------------------------------------------------
(* The scanner's state                                                     *)

\* newScanner(): every field zero except Line
newScanner ==
    [Line |-> 1, Column |-> 0, Offset |-> 0, Token |-> "Unknown",
     Literal |-> NoLit, lastWidth |-> 0,
     src |-> <<>>, r |-> NUL, off |-> 0, semi |-> FALSE, err |-> "",
     inShell |-> FALSE, exitingShell |-> FALSE]

\* s.errorf: stores the error, replacing an earlier one
errorf(sc, msg) == [sc EXCEPT !.err = msg]

NoLoc ==
    [wasSemi |-> FALSE, r |-> NUL, off |-> 0, tok |-> "Unknown",
     semi |-> FALSE, shell |-> "keep", prefix |-> <<>>, span |-> FALSE,
     multi |-> FALSE]

\* a scanner thread: the struct, the program counter, the locals, and the
\* continuation of the s.next() call in progress
Thread(sc, p, l, k) == [s |-> sc, pc |-> p, loc |-> l, ret |-> k]
Cur == Thread(s, pc, loc, ret)

\* lines 78-100 of next(): decode the rune at s.off and step over it
advance(sc) ==
    LET b == sc.src[sc.off + 1]
        s1 == [sc EXCEPT !.Offset = sc.off,
                         !.Line = IF sc.r = "\n" THEN @ + 1 ELSE @,
                         !.lastWidth = IF sc.r = "\n" THEN 0 ELSE @,
                         !.Column = IF sc.r = "\n" THEN 0 ELSE @]
        d == IF b \in HighBytes THEN DecodeRune(sc.src, sc.off)
             ELSE [r |-> b, w |-> 1]
        s2 == IF b = NUL THEN errorf(s1, "bad UTF-8: zero byte")
              ELSE IF b \in HighBytes /\ d.r = RuneError /\ d.w = 1
                   THEN errorf(s1, "bad UTF-8")
              ELSE IF b \in HighBytes /\ d.r = BOM
                   THEN errorf(s1, "bad byte order marker")
              ELSE s1
    IN  [s2 EXCEPT !.r = d.r,
                   !.Column = @ + s2.lastWidth,
                   !.lastWidth = d.w,
                   !.off = @ + d.w]

\* the test of line 63 left out: the request is sent at end of input too
nextAsksAgain(sc, l, k) ==
    IF sc.off >= Len(sc.src) THEN Thread(sc, "needSrc", l, k)
    ELSE Thread(advance(sc), k, l, "")

\* s.next() called on scanner sc with locals l, to continue at label k.
\* With the buffer exhausted and end of input not yet seen, the call
\* blocks sending on needSrc.
next(sc, l, k) ==
    IF sc.off >= Len(sc.src)
    THEN IF sc.r = EOF
         THEN Thread(sc, k, l, "")
         ELSE Thread(sc, "needSrc", l, k)
    ELSE Thread(advance(sc), k, l, "")

\* Next() hands the error over and forgets it
returnClearsErr(sc) == Thread([sc EXCEPT !.err = ""], "idle", NoLoc, "")

\* Next() returns to its caller
return(sc) == Thread(sc, "idle", NoLoc, "")

\* a run-time panic (slice bounds, index out of range, explicit panic)
panic(sc) == Thread(sc, "panic", NoLoc, "")

----------------------------------------------------------------------------
(* Literal validity, as the standard library decides it                    *)

RECURSIVE SkipDigits(_, _)
\* the first index >= i of str that holds no decimal digit
SkipDigits(str, i) ==
    IF i <= Len(str) /\ str[i] \in Digits THEN SkipDigits(str, i + 1) ELSE i

AllIn(str, S) == \A i \in 1..Len(str) : str[i] \in S

\* big.Int.SetString(str, 0): decimal, 0x hexadecimal, 0 octal
IntOK(str) ==
    LET n == Len(str) IN
    /\ n >= 1
    /\ IF str[1] # "0" THEN AllIn(str, Digits)
       ELSE IF n >= 2 /\ str[2] \in {"x", "X"}
            THEN n >= 3 /\ AllIn(SubSeq(str, 3, n), HexDigits)
       ELSE AllIn(str, OctDigits)

\* big.Float.SetString(str): digits [. digits] [e [sign] digits], with a
\* digit in the mantissa; a hexadecimal mantissa needs a p exponent, which
\* scanNumber never reads
FloatOK(str) ==
    LET n == Len(str)
        i1 == SkipDigits(str, 1)
        i2 == IF i1 <= n /\ str[i1] = "." THEN SkipDigits(str, i1 + 1) ELSE i1
        digits == (i1 - 1) + (IF i2 > i1 THEN i2 - i1 - 1 ELSE 0)
        hasExp == i2 <= n /\ str[i2] \in {"e", "E"}
        i3 == IF i2 + 1 <= n /\ str[i2 + 1] \in {"+", "-"} THEN i2 + 2 ELSE i2 + 1
        i4 == SkipDigits(str, i3)
    IN  /\ digits >= 1
        /\ IF hasExp THEN i4 > i3 /\ i4 = n + 1 ELSE i2 = n + 1

SimpleEscapes == {"a", "b", "f", "n", "r", "t", "v", "\\"}

\* the length of the character or escape sequence at the head of c, as
\* strconv.UnquoteChar(c, quote) reads it; 0 when it is malformed
UnquoteCharLen(c, quote) ==
    LET n == Len(c) IN
    IF n = 0 \/ c[1] = quote THEN 0
    ELSE IF c[1] # "\\" THEN 1
    ELSE IF n < 2 THEN 0
    ELSE IF c[2] \in SimpleEscapes \cup {quote} THEN 2
    ELSE IF c[2] = "x"
         THEN IF n >= 4 /\ AllIn(SubSeq(c, 3, 4), HexDigits) THEN 4 ELSE 0
    ELSE IF c[2] = "u"
         THEN IF n >= 6 /\ AllIn(SubSeq(c, 3, 6), HexDigits) THEN 6 ELSE 0
    ELSE IF c[2] \in {"0", "1", "2", "3"}
         THEN IF n >= 4 /\ AllIn(SubSeq(c, 3, 4), OctDigits) THEN 4 ELSE 0
    ELSE 0

RECURSIVE UnquoteBody(_)
UnquoteBody(c) ==
    \/ c = <<>>
    \/ LET k == UnquoteCharLen(c, "\"") IN
       k > 0 /\ UnquoteBody(SubSeq(c, k + 1, Len(c)))

\* strconv.Unquote of a double-quoted literal with content c succeeds
UnquoteOK(c) == (\A i \in 1..Len(c) : c[i] # "\n") /\ UnquoteBody(c)

----------------------------------------------------------------------------
(* Next(): lines 459-707, by the label the thread stands at                *)

Tok(sc, t) == return([sc EXCEPT !.Token = t])
TokSemi(sc, t) == return([sc EXCEPT !.Token = t, !.semi = TRUE])

\* s.next(), then s.Token = t (and s.semi = true when semi), then return
nextTok(sc, l, t, semi) ==
    next(sc, [l EXCEPT !.tok = t, !.semi = semi], "setTok")

\* skipWhitespace (lines 103-107) and the first switch of Next (467-501)
SkipWhitespaceStep(m) ==
    LET sc == m.s IN
    IF sc.r \in {" ", "\t", "\r"} \/ (sc.r = "\n" /\ ~sc.semi)
    THEN next(sc, m.loc, "skipWhitespace")
    ELSE LET l == [NoLoc EXCEPT !.wasSemi = sc.semi, !.r = sc.r]
             s1 == [sc EXCEPT !.semi = FALSE, !.Literal = NoLit]
         IN  IF sc.inShell THEN Thread(s1, "nextInShell", l, "")
             ELSE IF IsLetter(sc.r) \/ sc.r = "_"
                  THEN Thread(s1, "scanIdentifier", [l EXCEPT !.off = s1.Offset], "")
             ELSE IF IsDigit(sc.r)
                  THEN Thread([s1 EXCEPT !.semi = TRUE], "scanMantissa1",
                              [l EXCEPT !.off = s1.Offset, !.tok = "Int"], "")
             ELSE IF sc.r = "\n"
                  THEN return([s1 EXCEPT !.semi = FALSE, !.Token = "Semicolon"])
             ELSE next(s1, l, "L501")

\* the second switch of Next (lines 502-706), on the rune r read before
\* the s.next() of line 501
SwitchStep(m) ==
    LET sc == m.s
        l == m.loc
        r == l.r
        two(c, t2, t1) == IF sc.r = c THEN nextTok(sc, l, t2, FALSE) ELSE Tok(sc, t1)
    IN
    CASE r = EOF -> IF l.wasSemi THEN Tok(sc, "Semicolon") ELSE Tok(sc, "Unknown")
      [] r = "\n" -> return([sc EXCEPT !.semi = FALSE, !.Token = "Semicolon"])
      [] r = "(" -> Tok(sc, "LeftParen")
      [] r = ")" -> TokSemi(sc, "RightParen")
      [] r = "[" -> Tok(sc, "LeftBracket")
      [] r = "]" -> TokSemi(sc, "RightBracket")
      [] r = "{" -> two("|", "LeftBraceTable", "LeftBrace")
      [] r = "}" -> TokSemi(sc, "RightBrace")
      [] r = "," -> Tok(sc, "Comma")
      [] r = ";" -> Tok(sc, "Semicolon")
      [] r = "\"" ->
            Thread([sc EXCEPT !.semi = TRUE, !.Token = "String"], "scanString",
                   [l EXCEPT !.off = sc.Offset, !.span = FALSE], "")
      [] r = "'" ->
            Thread([sc EXCEPT !.semi = TRUE, !.Token = "Rune"], "scanRune",
                   [l EXCEPT !.off = sc.Offset], "")
      [] r = Backquote ->
            Thread([sc EXCEPT !.semi = TRUE, !.Token = "String"], "scanRawString",
                   [l EXCEPT !.off = sc.Offset], "")
      [] r = "." ->
            IF sc.r = "." THEN next(sc, l, "L553") ELSE Tok(sc, "Period")
      [] r = ":" -> two("=", "Define", "Colon")
      [] r = "+" ->
            IF sc.r = "=" THEN nextTok(sc, l, "AddAssign", FALSE)
            ELSE IF sc.r = "+" THEN nextTok(sc, l, "Inc", TRUE)
            ELSE Tok(sc, "Add")
      [] r = "-" ->
            IF sc.r = "=" THEN nextTok(sc, l, "SubAssign", FALSE)
            ELSE IF sc.r = "-" THEN nextTok(sc, l, "Dec", TRUE)
            ELSE Tok(sc, "Sub")
      [] r = "=" -> two("=", "Equal", "Assign")
      [] r = "*" -> two("=", "MulAssign", "Mul")
      [] r = "/" ->
            IF sc.r \in {"/", "*"}
            THEN \* scanComment, lines 336-347
                 next([sc EXCEPT !.semi = l.wasSemi],
                      [l EXCEPT !.off = sc.Offset - 1, !.multi = (sc.r = "*")],
                      "scanComment")
            ELSE two("=", "DivAssign", "Div")
      [] r = "%" -> two("=", "RemAssign", "Rem")
      [] r = "^" -> two("=", "PowAssign", "Pow")
      [] r = ">" ->
            IF sc.r = "=" THEN nextTok(sc, l, "GreaterEqual", FALSE)
            ELSE IF sc.r = ">" THEN nextTok(sc, l, "TwoGreater", FALSE)
            ELSE Tok(sc, "Greater")
      [] r = "<" ->
            IF sc.r = "-" THEN nextTok(sc, l, "ChanOp", FALSE)
            ELSE IF sc.r = "=" THEN nextTok(sc, l, "LessEqual", FALSE)
            ELSE IF sc.r = "<" THEN nextTok(sc, l, "TwoLess", FALSE)
            ELSE Tok(sc, "Less")
      [] r = "&" ->
            IF sc.r = "&" THEN nextTok(sc, l, "LogicalAnd", FALSE)
            ELSE IF sc.r = "^" THEN nextTok(sc, l, "RefPow", FALSE)
            ELSE Tok(sc, "Ref")
      [] r = "$" ->
            \* no default: a lone $ assigns no token
            IF sc.r = "$"
            THEN next(sc, [l EXCEPT !.tok = "Shell", !.shell = "enter"], "setTok")
            ELSE return(sc)
      [] r = "|" ->
            IF sc.r = "|" THEN nextTok(sc, l, "LogicalOr", FALSE)
            ELSE IF sc.r = "}" THEN nextTok(sc, l, "RightBraceTable", TRUE)
            ELSE Tok(sc, "Pipe")
      [] r = "!" -> two("=", "NotEqual", "Not")
      [] OTHER -> return([sc EXCEPT !.Token = "Unknown", !.Literal = StrLit(<<r>>)])

\* lines 553-556: the third rune of "..."
EllipsisStep(m) ==
    IF m.s.r = "." THEN nextTok(m.s, m.loc, "Ellipsis", FALSE) ELSE return(m.s)

\* the assignments that follow the last s.next() of a token, then return
SetTokStep(m) ==
    LET l == m.loc
        s1 == [m.s EXCEPT !.Token = l.tok, !.semi = IF l.semi THEN TRUE ELSE @]
    IN  CASE l.shell = "enter" -> return([s1 EXCEPT !.inShell = TRUE])
          [] l.shell = "exit" ->
                return([s1 EXCEPT !.exitingShell = FALSE, !.inShell = FALSE,
                                  !.semi = TRUE])
          [] OTHER -> return(s1)

\* scanIdentifier (lines 109-115) and lines 480-490
ScanIdentifierStep(m) ==
    LET sc == m.s IN
    IF IsLetter(sc.r) \/ IsDigit(sc.r) \/ sc.r = "_"
    THEN next(sc, m.loc, "scanIdentifier")
    ELSE LET lit == Slice(sc.src, m.loc.off, sc.Offset)
             kw == Keyword(lit)
         IN  IF kw = "Unknown"
             THEN return([sc EXCEPT !.Token = "Ident", !.Literal = StrLit(lit),
                                    !.semi = TRUE])
             ELSE return([sc EXCEPT !.Token = kw,
                                    !.semi = kw \in {"Break", "Continue",
                                                     "Fallthrough", "Return"}])

\* lines 211-243 of scanNumber and the assignment of line 493
numberEnd(sc, l) ==
    LET str == Slice(sc.src, l.off, sc.Offset)
        bad(msg) == return([errorf(sc, msg) EXCEPT !.Token = "Unknown",
                                                   !.Literal = NoLit])
        good == return([sc EXCEPT !.Token = l.tok, !.Literal = NumLit(l.tok, str)])
    IN  CASE l.tok = "Int" -> IF IntOK(str) THEN good ELSE bad("bad int literal")
          [] l.tok = "Float" -> IF FloatOK(str) THEN good ELSE bad("bad float literal")
          [] l.tok = "Imaginary" ->
                IF FloatOK(SubSeq(str, 1, Len(str) - 1)) THEN good
                ELSE bad("bad complex literal")

\* lines 206-209
numberImag(sc, l) ==
    IF sc.r = "i" THEN next(sc, [l EXCEPT !.tok = "Imaginary"], "numberEnd")
    ELSE numberEnd(sc, l)

\* lines 196-199
numberExponent(sc, l) ==
    IF sc.r \in {"e", "E"} THEN next(sc, [l EXCEPT !.tok = "Float"], "L200")
    ELSE numberImag(sc, l)

\* lines 189-194
numberFraction(sc, l) ==
    IF sc.r = "." THEN next(sc, [l EXCEPT !.tok = "Float"], "scanMantissa2")
    ELSE numberExponent(sc, l)

\* lines 183-187
numberHexa(sc, l) ==
    IF sc.r \in {"x", "X"} /\ Slice(sc.src, l.off, sc.Offset) = <<"0">>
    THEN next(sc, l, "scanHexa")
    ELSE numberFraction(sc, l)

\* scanNumber(false) (lines 170-244) with scanMantissa and scanHexa; the
\* seenDot branch has no caller
ScanNumberStep(m) ==
    LET sc == m.s
        l == m.loc
    IN
    CASE m.pc = "scanMantissa1" ->
            IF IsDigit(sc.r) THEN next(sc, l, "scanMantissa1") ELSE numberHexa(sc, l)
      [] m.pc = "scanHexa" ->
            IF sc.r \in HexDigits THEN next(sc, l, "scanHexa") ELSE numberFraction(sc, l)
      [] m.pc = "scanMantissa2" ->
            IF IsDigit(sc.r) THEN next(sc, l, "scanMantissa2") ELSE numberExponent(sc, l)
      [] m.pc = "L200" ->
            IF sc.r \in {"-", "+"} THEN next(sc, l, "scanMantissa3")
            ELSE Thread(sc, "scanMantissa3", l, "")
      [] m.pc = "scanMantissa3" ->
            IF IsDigit(sc.r) THEN next(sc, l, "scanMantissa3") ELSE numberImag(sc, l)
      [] m.pc = "numberEnd" -> numberEnd(sc, l)

ScanNumberPcs ==
    {"scanMantissa1", "scanHexa", "scanMantissa2", "L200", "scanMantissa3",
     "numberEnd"}

\* lines 329-333 of scanString and the assignments of its two callers
\* (lines 541 and 397-398)
stringEnd(sc, l) ==
    IF ~SliceOK(sc.src, l.off, sc.Offset - 1) THEN panic(sc)
    ELSE LET body == Slice(sc.src, l.off, sc.Offset - 1)
             str == <<"\"">> \o body \o <<"\"">>
             s1 == IF UnquoteOK(body) THEN sc ELSE errorf(sc, "string literal")
         IN  IF l.span
             THEN return([s1 EXCEPT !.Literal = StrLit(str), !.Token = "ShellWord"])
             ELSE return([s1 EXCEPT !.Literal = StrLit(str)])

\* scanString (lines 309-334)
ScanStringStep(m) ==
    LET sc == m.s
        l == m.loc
    IN
    CASE m.pc = "scanString" ->
            IF ~Positive(sc.r) \/ (~l.span /\ sc.r = "\n")
            THEN stringEnd(errorf(sc, "string literal missing terminating quote"), l)
            ELSE next(sc, [l EXCEPT !.r = sc.r], "L319")
      [] m.pc = "L319" ->
            IF l.r = "\\" /\ sc.r = "\"" THEN next(sc, l, "scanString")
            ELSE IF l.r = "\"" THEN stringEnd(sc, l)
            ELSE Thread(sc, "scanString", l, "")

ScanStringPcs == {"scanString", "L319"}

\* lines 301-306 of scanRune and the assignment of line 545
runeEnd(sc, l) ==
    IF ~SliceOK(sc.src, l.off, sc.Offset - 1) THEN panic(sc)
    ELSE LET str == Slice(sc.src, l.off, sc.Offset - 1)
             k == UnquoteCharLen(str, "'")
         IN  IF k = 0
             THEN return([errorf(sc, "rune literal") EXCEPT
                              !.Literal = NumLit("rune", <<>>)])
             ELSE return([sc EXCEPT !.Literal = NumLit("rune", SubSeq(str, 1, k))])

\* scanRune (lines 281-307)
ScanRuneStep(m) ==
    LET sc == m.s
        l == m.loc
    IN
    CASE m.pc = "scanRune" ->
            IF ~Positive(sc.r) \/ sc.r = "\n"
            THEN runeEnd(errorf(sc, "character literal missing terminating quote"), l)
            ELSE next(sc, [l EXCEPT !.r = sc.r], "L291")
      [] m.pc = "L291" ->
            IF l.r = "\\" /\ sc.r = "'" THEN next(sc, l, "scanRune")
            ELSE IF l.r = "'" THEN runeEnd(sc, l)
            ELSE Thread(sc, "scanRune", l, "")

ScanRunePcs == {"scanRune", "L291"}

\* line 278 of scanRawString and the assignment of line 549
rawStringEnd(sc, l) ==
    IF ~SliceOK(sc.src, l.off, sc.Offset - 1) THEN panic(sc)
    ELSE return([sc EXCEPT !.Literal =
                    StrLit(<<Backquote>> \o Slice(sc.src, l.off, sc.Offset - 1)
                           \o <<Backquote>>)])

\* scanRawString (lines 264-279)
ScanRawStringStep(m) ==
    LET sc == m.s
        l == m.loc
    IN
    CASE m.pc = "scanRawString" ->
            IF ~Positive(sc.r)
            THEN rawStringEnd(errorf(sc, "raw string literal not terminated"), l)
            ELSE next(sc, [l EXCEPT !.r = sc.r], "L274")
      [] m.pc = "L274" ->
            IF l.r = Backquote THEN rawStringEnd(sc, l)
            ELSE Thread(sc, "scanRawString", l, "")

ScanRawStringPcs == {"scanRawString", "L274"}

\* the latch is left as line 501 cleared it
commentEndNoLatch(sc, l) ==
    return([sc EXCEPT !.Literal = StrLit(Slice(sc.src, l.off, sc.Offset)),
                      !.Token = "Comment", !.semi = FALSE])

\* lines 363-365 of scanComment and the assignments of lines 614-615
commentEnd(sc, l) ==
    return([sc EXCEPT !.Literal = StrLit(Slice(sc.src, l.off, sc.Offset)),
                      !.Token = "Comment"])

\* scanComment (lines 336-366), after the s.next() of line 341 or 347
ScanCommentStep(m) ==
    LET sc == m.s
        l == m.loc
    IN
    CASE m.pc = "scanComment" ->
            IF ~l.multi
            THEN IF Positive(sc.r) /\ sc.r # "\n" THEN next(sc, l, "scanComment")
                 ELSE commentEnd(sc, l)
            ELSE IF Positive(sc.r) THEN next(sc, [l EXCEPT !.r = sc.r], "L352")
                 ELSE commentEnd([sc EXCEPT !.err = "multi-line comment not terminated"], l)
      [] m.pc = "L352" ->
            IF l.r = "*" /\ sc.r = "/" THEN next(sc, l, "commentEnd")
            ELSE Thread(sc, "scanComment", l, "")
      [] m.pc = "commentEnd" -> commentEnd(sc, l)

ScanCommentPcs == {"scanComment", "L352", "commentEnd"}

----------------------------------------------------------------------------
(* Shell mode: nextInShell and the shell word scanners                     *)

ShellMeta == {" ", "\t", "\n", "\r", "|", "&", ";", "<", ">", "(", ")"}

\* s.next(), then leave shell mode with the Shell token (lines 373-378 and
\* 384-387)
nextExitShell(sc, l) ==
    next(sc, [l EXCEPT !.tok = "Shell", !.shell = "exit"], "setTok")

\* entry of scanShellWord (line 118) from nextInShell, which adds prefix
\* to the word it returns
enterShellWord(sc, l, prefix) ==
    Thread([sc EXCEPT !.semi = TRUE], "scanShellWord",
           [l EXCEPT !.off = sc.Offset, !.prefix = prefix], "")

\* nextInShell (lines 368-457)
NextInShellStep(m) ==
    LET sc == m.s
        l == m.loc
    IN
    CASE m.pc = "nextInShell" ->
            IF sc.exitingShell
            THEN IF sc.r # "$" THEN panic(sc) ELSE nextExitShell(sc, l)
            ELSE CASE sc.r \in {"$", "\"", "'", "|", "&", ">"} ->
                        next(sc, [l EXCEPT !.r = sc.r], "nextInShell2")
                   [] sc.r = "\n" -> Tok(sc, "ShellNewline")
                   [] sc.r = ";" -> nextTok(sc, l, "Semicolon", FALSE)
                   [] sc.r = "<" -> nextTok(sc, l, "Less", FALSE)
                   [] sc.r = "(" -> nextTok(sc, l, "LeftParen", FALSE)
                   [] sc.r = ")" -> nextTok(sc, l, "RightParen", FALSE)
                   [] OTHER -> enterShellWord(sc, l, <<>>)
      \* after the first s.next() of a case, on the rune r that chose it
      [] m.pc = "nextInShell2" ->
            CASE l.r = "$" ->
                    IF sc.r = "$" THEN nextExitShell(sc, l)
                    ELSE enterShellWord(sc, l, <<"$">>)
              [] l.r = "\"" ->
                    Thread([sc EXCEPT !.semi = TRUE], "scanString",
                           [l EXCEPT !.off = sc.Offset, !.span = TRUE], "")
              [] l.r = "'" ->
                    \* scanSingleQuotedShellWord, lines 247-248
                    next([sc EXCEPT !.semi = TRUE], [l EXCEPT !.off = sc.Offset],
                         "scanSingleQuotedShellWord")
              [] l.r = "|" ->
                    IF sc.r = "|" THEN nextTok(sc, l, "LogicalOr", FALSE)
                    ELSE Tok(sc, "ShellPipe")
              [] l.r = "&" ->
                    IF sc.r = "&" THEN nextTok(sc, l, "LogicalAnd", FALSE)
                    ELSE IF sc.r = ">" THEN nextTok(sc, l, "AndGreater", FALSE)
                    ELSE Tok(sc, "Ref")
              [] l.r = ">" ->
                    IF sc.r = "&" THEN nextTok(sc, l, "GreaterAnd", FALSE)
                    ELSE IF sc.r = ">" THEN nextTok(sc, l, "TwoGreater", FALSE)
                    ELSE Tok(sc, "Greater")

NextInShellPcs == {"nextInShell", "nextInShell2"}

\* the slice of line 141 taken one byte too far, up to s.Offset: the word
\* keeps the first dollar of the closing pair
exitingWordWithDollar(sc, l) == Slice(sc.src, l.off, sc.Offset)

\* the word scanShellWord returns when it has run into "$$" (line 141)
exitingWord(sc, l) == Slice(sc.src, l.off, sc.Offset - 1)

\* scanShellWord returns word: lines 390-391 and 454-455
shellWordEnd(sc, l, word) ==
    return([sc EXCEPT !.Literal = StrLit(l.prefix \o word), !.Token = "ShellWord"])

\* scanShellWord (lines 117-154)
ScanShellWordStep(m) ==
    LET sc == m.s
        l == m.loc
    IN
    CASE m.pc = "scanShellWord" ->
            CASE sc.r = "\\" -> next(sc, l, "L123")
              [] sc.r = "$" -> next(sc, l, "L126")
              [] sc.r \in ShellMeta ->
                    shellWordEnd(sc, l, Slice(sc.src, l.off, sc.Offset))
              [] OTHER -> next(sc, l, "scanShellWord")
      [] m.pc = "L123" -> next(sc, l, "scanShellWord")
      [] m.pc = "L126" ->
            CASE sc.r = "$" ->
                    IF ~SliceOK(sc.src, l.off, sc.Offset - 1) THEN panic(sc)
                    ELSE shellWordEnd([sc EXCEPT !.exitingShell = TRUE], l,
                                      exitingWord(sc, l))
              [] sc.r = "{" -> Thread(sc, "L143", l, "")
              [] OTHER -> Thread(sc, "scanShellWord", l, "")
      [] m.pc = "L143" ->
            IF sc.r # "}" THEN next(sc, l, "L143")
            ELSE next(sc, l, "scanShellWord")

ScanShellWordPcs == {"scanShellWord", "L123", "L126", "L143"}

\* scanSingleQuotedShellWord (lines 246-262), after the s.next() of line
\* 248, and the assignments of lines 403-404
ScanSingleQuotedShellWordStep(m) ==
    LET sc == m.s
        l == m.loc
        end(s1) == return([s1 EXCEPT
                       !.Literal = StrLit(<<"'">> \o Slice(s1.src, l.off, s1.Offset)),
                       !.Token = "ShellWord"])
    IN
    CASE m.pc = "scanSingleQuotedShellWord" ->
            IF ~Positive(sc.r)
            THEN end(errorf(sc, "single-quoted string missing terminating quote"))
            ELSE next(sc, [l EXCEPT !.r = sc.r], "L257")
      [] m.pc = "L257" ->
            IF l.r = "'" THEN end(sc)
            ELSE Thread(sc, "scanSingleQuotedShellWord", l, "")

ScanSingleQuotedShellWordPcs == {"scanSingleQuotedShellWord", "L257"}

----------------------------------------------------------------------------
(* The scanner as a transition system                                      *)

\* one step of the goroutine that runs Next(), from the label it stands at
ScanStep(m) ==
    CASE m.pc = "skipWhitespace" -> SkipWhitespaceStep(m)
      [] m.pc = "L501" -> SwitchStep(m)
      [] m.pc = "L553" -> EllipsisStep(m)
      [] m.pc = "setTok" -> SetTokStep(m)
      [] m.pc = "scanIdentifier" -> ScanIdentifierStep(m)
      [] m.pc \in ScanNumberPcs -> ScanNumberStep(m)
      [] m.pc \in ScanStringPcs -> ScanStringStep(m)
      [] m.pc \in ScanRunePcs -> ScanRuneStep(m)
      [] m.pc \in ScanRawStringPcs -> ScanRawStringStep(m)
      [] m.pc \in ScanCommentPcs -> ScanCommentStep(m)
      [] m.pc \in NextInShellPcs -> NextInShellStep(m)
      [] m.pc \in ScanShellWordPcs -> ScanShellWordStep(m)
      [] m.pc \in ScanSingleQuotedShellWordPcs -> ScanSingleQuotedShellWordStep(m)
      [] OTHER -> m

\* the caller enters Next() (line 467)
enterNext(sc) == Thread(sc, "skipWhitespace", NoLoc, "")

\* lines 67-76 of next() once the driver has sent b on addSrc, then lines
\* 78-100; a non-nil chunk of length zero leaves s.off past the buffer and
\* line 85 indexes out of range
receive(m, b) ==
    IF b.nil
    THEN Thread([m.s EXCEPT !.Offset = Len(m.s.src), !.Token = "Unknown",
                            !.Literal = NoLit, !.r = EOF],
                m.ret, m.loc, "")
    ELSE LET s1 == [m.s EXCEPT !.src = @ \o b.bytes] IN
         IF s1.off >= Len(s1.src) THEN panic(s1)
         ELSE Thread(advance(s1), m.ret, m.loc, "")

Nil == [nil |-> TRUE, bytes |-> <<>>]
Chunk(b) == [nil |-> FALSE, bytes |-> b]

\* the families of chunks the driver sends
Profiles == {"shell", "quote", "semi", "number", "bytes", "brace"}

ChunksOf(p) ==
    CASE p = "shell" ->
            {<<"$", "$">>, <<"$">>, <<"a">>, <<" ">>, <<"{">>, <<"}">>, <<>>}
      [] p = "quote" ->
            {<<"$", "$">>, <<"\"">>, <<"'">>, <<"\\">>, <<"/", "/">>,
             <<"/", "*">>, <<"*", "/">>, <<"\n">>, <<"\\", "\"">>}
      [] p = "semi" ->
            {<<"e">>, <<"1">>, Str("return"), Str("if"), <<"+">>, <<")">>,
             <<"\n">>, <<"$">>, <<"$", "$">>}
      [] p = "number" ->
            {<<"0">>, <<"x">>, <<".">>, <<"e">>, <<"i">>, <<Backquote>>, <<"\n">>}
      [] p = "brace" ->
            {<<"$", "$", "a">>, <<"$", "{">>, <<" ">>, <<"}", "c", " ">>, <<"|">>}
      [] p = "bytes" ->
            {<<NUL>>, BomBytes, TwoBytes, <<"xFF">>, <<"e">>, <<"\n">>}
      [] OTHER -> {}

----------------------------------------------------------------------------
(* What the caller of Next() has seen                                      *)

\* assigned tells that the call in progress (or the last one) has assigned
\* s.Token, prevInShell that it was made in shell mode, from is the label
\* the last call returned from;
\* latch is s.semi as the last token that is no comment left it, comment
\* tells that the last return was scanComment's, afterT tells a call made
\* after a comment what latch was
NoHist ==
    [lastTok |-> "None", before |-> "None", shellOdd |-> FALSE,
     sawNL |-> FALSE, nlSemi |-> FALSE,
     prevExiting |-> FALSE, prevOffset |-> 0, prevErr |-> FALSE,
     latch |-> FALSE, comment |-> FALSE, afterT |-> "none",
     assigned |-> TRUE, prevInShell |-> FALSE, from |-> ""]

\* the caller calls Next(): remember the state it calls from
OnCall(h, sc) ==
    [h EXCEPT !.before = h.lastTok, !.sawNL = FALSE, !.nlSemi = FALSE,
              !.prevExiting = sc.exitingShell, !.prevOffset = sc.Offset,
              !.prevErr = (sc.err # ""),
              !.assigned = FALSE, !.prevInShell = sc.inShell,
              !.afterT = IF ~h.comment THEN "none"
                         ELSE IF h.latch THEN "semi" ELSE "nosemi"]

\* Next() returns from label p with scanner sc: the caller reads s.Token
OnReturn(h, sc, p) ==
    [h EXCEPT !.lastTok = IF sc.Token # "Comment" THEN sc.Token ELSE @,
              !.shellOdd = IF sc.Token = "Shell" THEN ~@ ELSE @,
              !.sawNL = @ \/ p = "skipWhitespace",
              !.nlSemi = (p = "skipWhitespace"),
              !.comment = (p \in ScanCommentPcs),
              !.from = p,
              !.latch = IF p \in ScanCommentPcs THEN @ ELSE sc.semi]

\* the thread with s.Token set aside: no step reads s.Token, so a step
\* taken from here assigns s.Token exactly when it leaves a token kind
Unassigned == Thread([s EXCEPT !.Token = "None"], pc, loc, ret)
Assigns(m) == m.s.Token # "None"

\* the scanner after the step to m: s.Token is what the step assigned, or
\* what it was
Stepped(m) == IF Assigns(m) THEN m.s ELSE [m.s EXCEPT !.Token = s.Token]

\* the scanner thread becomes m, a step from Unassigned
Become(m) ==
    /\ s' = Stepped(m)
    /\ pc' = m.pc
    /\ loc' = m.loc
    /\ ret' = m.ret
    /\ hist' = LET h == [hist EXCEPT !.assigned = @ \/ Assigns(m)] IN
               IF m.pc = "idle"
               THEN OnReturn(h, Stepped(m), pc)
               ELSE IF pc = "skipWhitespace" /\ ~s.inShell /\ s.r = "\n"
                    THEN [h EXCEPT !.sawNL = TRUE]
               ELSE h

\* a step of the scanner thread to m
Go(m) == Become(m) /\ UNCHANGED <<profile, sent, gen, xp>>

CallNext ==
    /\ pc = "idle"
    /\ s' = s
    /\ pc' = "skipWhitespace"
    /\ loc' = NoLoc
    /\ ret' = ""
    /\ hist' = OnCall(hist, s)
    /\ UNCHANGED <<profile, sent, gen, xp>>

SkipWhitespace == pc = "skipWhitespace" /\ Go(SkipWhitespaceStep(Unassigned))
Switch == pc = "L501" /\ Go(SwitchStep(Unassigned))
Ellipsis == pc = "L553" /\ Go(EllipsisStep(Unassigned))
SetTok == pc = "setTok" /\ Go(SetTokStep(Unassigned))
ScanIdentifier == pc = "scanIdentifier" /\ Go(ScanIdentifierStep(Unassigned))
ScanNumber == pc \in ScanNumberPcs /\ Go(ScanNumberStep(Unassigned))
ScanString == pc \in ScanStringPcs /\ Go(ScanStringStep(Unassigned))
ScanRune == pc \in ScanRunePcs /\ Go(ScanRuneStep(Unassigned))
ScanRawString == pc \in ScanRawStringPcs /\ Go(ScanRawStringStep(Unassigned))
ScanComment == pc \in ScanCommentPcs /\ Go(ScanCommentStep(Unassigned))
NextInShell == pc \in NextInShellPcs /\ Go(NextInShellStep(Unassigned))
ScanShellWord == pc \in ScanShellWordPcs /\ Go(ScanShellWordStep(Unassigned))
ScanSingleQuotedShellWord ==
    pc \in ScanSingleQuotedShellWordPcs /\ Go(ScanSingleQuotedShellWordStep(Unassigned))

\* the driver receives the request the scanner sends on needSrc (line 66)
DriverRecv ==
    /\ pc = "needSrc"
    /\ pc' = "addSrc"
    /\ UNCHANGED <<s, loc, ret, profile, sent, hist, gen, xp>>

\* the driver sends a chunk, or nil for end of input, on addSrc (line 67)
DriverSend ==
    /\ pc = "addSrc"
    /\ \E b \in {Nil} \cup {Chunk(c) : c \in ChunksOf(profile)} :
          /\ b.nil \/ sent < MaxChunks
          /\ Become(receive(Unassigned, b))
          /\ sent' = IF b.nil THEN sent ELSE sent + 1
          /\ UNCHANGED <<profile, gen, xp>>

GenOff == [phase |-> "off"]
XpOff == [phase |-> "off"]

Init ==
    /\ s = newScanner
    /\ pc = "idle"
    /\ loc = NoLoc
    /\ ret = ""
    /\ profile \in Profiles
    /\ sent = 0
    /\ hist = NoHist
    /\ gen = GenOff
    /\ xp = XpOff

Next ==
    \/ CallNext
    \/ SkipWhitespace
    \/ Switch
    \/ Ellipsis
    \/ SetTok
    \/ ScanIdentifier
    \/ ScanNumber
    \/ ScanString
    \/ ScanRune
    \/ ScanRawString
    \/ ScanComment
    \/ NextInShell
    \/ ScanShellWord
    \/ ScanSingleQuotedShellWord
    \/ DriverRecv
    \/ DriverSend

Spec == Init /\ [][Next]_vars

----------------------------------------------------------------------------
(* GenGo: the emitter of Go source                                         *)

\* a source file has at most MaxStmts top-level statements
MaxStmts == 3

\* an import path: its directory and its last element (path.Base), the
\* last element split at "_"
Path(d, b) == [dir |-> d, base |-> b]

\* top-level statements of the checked package: stmt.Import, stmt.Simple
\* of an expr.Call or an expr.Shell, stmt.Assign, stmt.MethodikDecl,
\* stmt.Range (over x, with an empty body)
Import(d, b) == [k |-> "import", path |-> Path(d, b)]
Call(f, el, t) == [k |-> "call", fn |-> f, elide |-> el, typ |-> t]
Shell(n, el) == [k |-> "shell", cmds |-> n, elide |-> el]
Assign(d, l) == [k |-> "assign", decl |-> d, left |-> l]
MethodikDecl(n, ms) == [k |-> "methodik", name |-> n, methods |-> ms]
Range(key, val, d) == [k |-> "range", key |-> key, val |-> val, decl |-> d]

\* stmt.For with an empty body: each of Init, Cond and Post is nil (<<>>)
\* or the text of the clause
For(init, cond, post) == [k |-> "for", init |-> init, cond |-> cond, post |-> post]

\* a call x.F() of a function of an imported package: the checked type of
\* the identifier x is the *tipe.Package of the import path pkg
PkgCall(pkg, f, el, t) ==
    [k |-> "call", fn |-> f, elide |-> el, typ |-> t, pkg |-> pkg]

\* an operand on the left of an assignment: an identifier or another
\* expression, with its text
Left(id, n) == [ident |-> id, name |-> n]

\* the type the checker records for a call: the result tuple of the callee
\* (a *tipe.Tuple, one object per function type), or the error type
Tuple(id, elems) == [id |-> id, elems |-> elems]
ErrorType == Tuple(0, <<"error">>)

\* tipe.Named.PkgPath: the named types "a/x.T" and "c/z.U" carry the path
\* of their package, every other type of the model carries none
NoPath == Path("", <<>>)
PkgPath(t) ==
    CASE t = "a/x.T" -> Path("a", <<"x">>)
      [] t = "c/z.U" -> Path("c", <<"z">>)
      [] OTHER -> NoPath
IsError(t) == t = ErrorType

Families ==
    {"imports", "eliders", "shell", "decls", "range", "files", "qualifiers",
     "for"}

StmtsOf(f) ==
    CASE f = "imports" ->
            {Import("a", <<"x">>), Import("b", <<"x">>), Import("c", <<"x", "1">>),
             Import("", <<"fmt">>), Call("print", FALSE, Tuple(9, <<>>))}
      [] f = "eliders" ->
            {Call("f", TRUE, Tuple(1, <<"int", "error">>)),
             Call("g", TRUE, Tuple(2, <<"int", "error">>)),
             Call("h", TRUE, Tuple(3, <<"string", "int", "error">>)),
             Call("e", TRUE, ErrorType),
             Call("f", FALSE, Tuple(1, <<"int", "error">>))}
      [] f = "shell" ->
            {Shell(0, FALSE), Shell(1, FALSE), Shell(1, TRUE), Shell(0, TRUE),
             Call("errorf", FALSE, ErrorType), Import("", <<"os">>)}
      [] f = "decls" ->
            {Assign(TRUE, <<Left(TRUE, <<"a">>)>>),
             Assign(TRUE, <<Left(TRUE, <<"B">>)>>),
             Assign(TRUE, <<Left(TRUE, <<"B">>), Left(TRUE, <<"a">>)>>),
             Assign(TRUE, <<Left(TRUE, <<"a">>), Left(TRUE, <<"B">>)>>),
             Assign(TRUE, <<Left(TRUE, <<"_">>), Left(TRUE, <<"a">>)>>),
             Assign(FALSE, <<Left(TRUE, <<"a">>)>>),
             Assign(FALSE, <<Left(FALSE, <<"a", ".", "f">>)>>),
             MethodikDecl(<<"A", "n", "I", "n", "t">>, <<"f">>),
             MethodikDecl(<<"a", "n", "I", "n", "t">>, <<"f">>)}
      [] f = "range" ->
            {Range(<<"k">>, <<"v">>, TRUE), Range(<<"k">>, <<"v">>, FALSE),
             Range(<<"k">>, <<>>, TRUE), Range(<<"k">>, <<>>, FALSE),
             Range(<<>>, <<"v">>, TRUE), Range(<<>>, <<"v">>, FALSE),
             Range(<<>>, <<>>, TRUE), Range(<<>>, <<>>, FALSE)}
      [] f = "files" ->
            {Range(<<"k">>, <<"v">>, TRUE), Range(<<>>, <<"v">>, TRUE)}
      [] f = "for" ->
            {For(init, cond, post) :
                init \in {<<>>, <<"i">>}, cond \in {<<>>, <<"c">>},
                post \in {<<>>, <<"p">>}}
      [] f = "qualifiers" ->
            {Import("a", <<"x">>), Import("b", <<"x">>), Import("c", <<"z">>),
             PkgCall(Path("a", <<"x">>), "F", TRUE, Tuple(4, <<"a/x.T", "error">>)),
             PkgCall(Path("a", <<"x">>), "F", FALSE, Tuple(4, <<"a/x.T", "error">>)),
             PkgCall(Path("b", <<"x">>), "G", TRUE, Tuple(5, <<"c/z.U", "error">>))}

\* the package passes the type checker (line 43): a package identifier is
\* declared by an import statement before its use
Checks(prog) ==
    \A j \in DOMAIN prog :
        "pkg" \in DOMAIN prog[j] =>
            \E i \in 1..(j - 1) : prog[i] = [k |-> "import", path |-> prog[j].pkg]

Progs(f) ==
    {prog \in UNION {[1..n -> StmtsOf(f)] : n \in 1..MaxStmts} : Checks(prog)}

\* the arguments of GenGo: the file named filename has a base name and an
\* extension, filepath.Abs resolves it or not (line 38), and the package
\* in it passes the type checker or not (line 43)
File(b, x, abs, checks) ==
    [base |-> b, ext |-> x, abs |-> abs, checks |-> checks]
Filenames(f) ==
    IF f = "files"
    THEN {File(<<"f">>, ".ng", TRUE, TRUE), File(<<"f">>, ".txt", TRUE, TRUE),
          File(<<"f">>, "", TRUE, TRUE), File(<<"f">>, ".ng", FALSE, TRUE),
          File(<<"f">>, ".ng", TRUE, FALSE)}
    ELSE {File(<<"f">>, ".ng", TRUE, TRUE)}
PkgNames == {<<>>, <<"main">>}

\* filepath.Base(filename), in pieces, and strings.TrimSuffix (line 50)
Base(filename) ==
    filename.base \o (IF filename.ext = "" THEN <<>> ELSE <<filename.ext>>)
TrimSuffix(name, suffix) ==
    IF Len(name) > 0 /\ name[Len(name)] = suffix
    THEN SubSeq(name, 1, Len(name) - 1) ELSE name

\* lines 48-52: the name in the package clause
pkgName(filename, outGoPkgName) ==
    IF outGoPkgName = <<>>
    THEN <<"gengo_">> \o TrimSuffix(Base(filename), ".ng")
    ELSE outGoPkgName

isExported(name) ==
    Len(name) > 0 /\ name[1] \in {"A", "B", "C", "D", "E", "F", "X"}

\* the exported symbols of the checked package, in source order
ExportedOf(st) ==
    CASE st.k = "methodik" ->
            IF isExported(st.name) THEN <<[kind |-> "type", name |-> st.name]>>
            ELSE <<>>
      [] st.k = "assign" /\ st.decl ->
            LET ex == SelectSeq(st.left, LAMBDA e : e.ident /\ isExported(e.name))
            IN  [j \in 1..Len(ex) |-> [kind |-> "var", name |-> ex[j].name]]
      [] OTHER -> <<>>

RECURSIVE Exported(_)
Exported(prog) ==
    IF prog = <<>> THEN <<>> ELSE ExportedOf(Head(prog)) \o Exported(Tail(prog))

\* the buffer of the printer, by section, each in printing order
NoBuf ==
    [pkg |-> <<>>, imports |-> <<>>, main |-> FALSE, decls |-> <<>>,
     init |-> <<>>, funcs |-> <<>>]

\* the results of GenGo: no bytes, no error, and an error with the text
\* it carries
NilBytes == [nil |-> TRUE]
Error(msg, lines) == [msg |-> msg, lines |-> lines]
NoErr == Error("", <<>>)

\* GenGo(filename, outGoPkgName) is called (lines 30-55): the printer is
\* made, the path resolved, the package checked ("return nil, err" when
\* either fails) and the package clause printed
GenGo(prog, filename, outGoPkgName, run, first) ==
    LET ok == filename.abs /\ filename.checks
    IN
    [phase |-> IF ok THEN "walk" ELSE "failed",
     run |-> run, prog |-> prog, filename |-> filename,
     outGoPkgName |-> outGoPkgName,
     p |-> [buf |-> IF ok
                    THEN [NoBuf EXCEPT !.pkg = pkgName(filename, outGoPkgName)]
                    ELSE NoBuf,
            imports |-> {}, eliders |-> {}],
     usesShell |-> FALSE, builtins |-> {}, importSet |-> {},
     namedImports |-> {}, toPrint |-> {}, toElide |-> {}, i |-> 1,
     first |-> first,
     res |-> IF ok THEN NoBuf ELSE NilBytes,
     err |-> IF ~filename.abs THEN Error("filepath.Abs", <<>>)
             ELSE IF ~filename.checks THEN Error("gotypes.Check", <<>>)
             ELSE NoErr]

\* syntax.Walk(pkg.Syntax, preFn, nil) and the import set (lines 57-85)
Walk(g) ==
    LET prog == g.prog
        calls == {j \in DOMAIN prog : prog[j].k = "call"}
    IN  [g EXCEPT
            !.usesShell = \E j \in DOMAIN prog :
                              prog[j].k = "shell" /\ prog[j].cmds > 0,
            !.builtins = {prog[j].fn : j \in calls}
                            \cap {"printf", "print", "errorf"},
            !.importSet = {prog[j].path :
                              j \in {j \in DOMAIN prog : prog[j].k = "import"}},
            !.phase = "name"]

\* "gengoimp_" + base, or Sprintf("gengoimp_%s_%d", base, i), split at "_"
aliasName(base, i) ==
    <<"gengoimp">> \o base \o (IF i = 0 THEN <<>> ELSE <<ToString(i)>>)

\* the loop of lines 91-94 left out: the first name is taken as it is
firstName(named, base, i) == aliasName(base, i)

RECURSIVE freeName(_, _, _)
\* lines 89-94: the first name no import has yet
freeName(named, base, i) ==
    IF \E e \in named : e.name = aliasName(base, i)
    THEN freeName(named, base, i + 1)
    ELSE aliasName(base, i)

\* one iteration of the loop of lines 88-97 over the map importSet, for imp
nameImport(g, imp) ==
    LET name == freeName(g.namedImports, imp.base, 0)
    IN  [g EXCEPT
            !.importSet = @ \ {imp},
            !.namedImports = {e \in @ : e.name # name}
                                \cup {[name |-> name, path |-> imp]},
            !.p.imports = {e \in @ : e.pkg # imp}
                             \cup {[pkg |-> imp, name |-> name]}]

\* lines 99-123: the imports of the builtins and of the shell shim
printImports(g) ==
    LET std(d, b) == [name |-> <<>>, path |-> Path(d, <<b>>)]
        fmt == IF g.builtins # {} THEN <<std("", "fmt")>> ELSE <<>>
        shim == IF g.usesShell
                THEN <<std("", "fmt"), std("", "os"), std("", "reflect"),
                       std("neugram.io/ng/eval", "environ"),
                       std("neugram.io/ng/eval", "shell"),
                       std("neugram.io/ng/syntax", "expr"),
                       std("neugram.io/ng/syntax", "src"),
                       std("neugram.io/ng/syntax", "token")>>
                ELSE <<>>
    IN  [g EXCEPT !.p.buf.imports = fmt \o shim,
                  !.toPrint = g.namedImports,
                  !.phase = "named"]

\* lines 131-162: func main and the exported declarations
liftExported(g) ==
    [g EXCEPT !.p.buf.main = (g.outGoPkgName = <<"main">>),
              !.p.buf.decls = Exported(g.prog),
              !.phase = "stmts"]

\* printer.elider (lines 963-970): the helper of type t, made if new
elider(p, t) ==
    IF \E e \in p.eliders : e.t = t
    THEN [p |-> p, name |-> (CHOOSE e \in p.eliders : e.t = t).name]
    ELSE LET name == <<"gengo_elider", Cardinality(p.eliders)>>
         IN  [p |-> [p EXCEPT !.eliders = @ \cup {[t |-> t, name |-> name]}],
              name |-> name]

\* p.imports[pkg] (lines 460 and 855): the alias of the package, or the
\* empty string the map gives for a key it does not hold
qualifier(p, pkg) ==
    [pkg |-> pkg,
     alias |-> IF \E e \in p.imports : e.pkg = pkg
               THEN (CHOOSE e \in p.imports : e.pkg = pkg).name
               ELSE <<>>]

\* printer.tipe over the elements of a tuple (lines 852-858): the
\* qualifiers written, one for each named type that has a package path
RECURSIVE qualifiers(_, _)
qualifiers(p, elems) ==
    IF elems = <<>> THEN <<>>
    ELSE (IF PkgPath(Head(elems)) # NoPath
          THEN <<qualifier(p, PkgPath(Head(elems)))>> ELSE <<>>)
         \o qualifiers(p, Tail(elems))

\* the operator stmt.Assign is printed with (line 574)
assignOp(st) ==
    IF ~st.left[1].ident \/ isExported(st.left[1].name) \/ ~st.decl
    THEN "=" ELSE ":="

\* every operand on the left gets a discard
discardedAll(st) ==
    IF st.k = "assign" /\ st.decl THEN st.left ELSE <<>>

\* lines 170-183: the operands of a declaring assignment that get a
\* "_ = x" line, all but the identifier "_"
discarded(st) ==
    IF st.k = "assign" /\ st.decl
    THEN SelectSeq(st.left, LAMBDA e : ~(e.ident /\ e.name = <<"_">>))
    ELSE <<>>

\* stmt.Range as printed (lines 629-646), piece by piece, up to the body
rangeHeader(st) ==
    <<"for">> \o st.key
        \o (IF st.val # <<>> THEN <<",">> \o st.val ELSE <<>>)
        \o (IF st.decl THEN <<":">> ELSE <<>>)
        \o (IF st.key # <<>> \/ st.val # <<>> THEN <<"=">> ELSE <<>>)
        \o <<"range", "x">>

\* stmt.For as printed (lines 595-607), piece by piece, up to the body
forHeader(st) ==
    <<"for">>
        \o (IF st.init # <<>> THEN st.init \o <<";">> ELSE <<>>)
        \o (IF st.cond # <<>> THEN st.cond \o <<";">> ELSE <<>>)
        \o (IF st.post # <<>> THEN st.post ELSE <<>>)

\* the loop body of lines 166-184: p.stmt(s) (lines 538-770) with p.expr
\* for a call (385-404) and a shell fragment (492-507), then the discards
printStmt(g) ==
    LET st == g.prog[g.i]
        el == IF st.k = "call" /\ st.elide THEN elider(g.p, st.typ)
              ELSE [p |-> g.p, name |-> <<>>]
        kept == discarded(st)
        lines ==
            CASE st.k = "assign" ->
                    <<[k |-> "assign", at |-> g.i, op |-> assignOp(st)]>>
                    \o [j \in 1..Len(kept) |->
                          [k |-> "discard", at |-> g.i, name |-> kept[j].name]]
              [] st.k = "call" ->
                    <<[k |-> "call", at |-> g.i, fn |-> st.fn, wrap |-> el.name,
                       quals |-> IF "pkg" \in DOMAIN st
                                 THEN <<qualifier(g.p, st.pkg)>> ELSE <<>>]>>
              [] st.k = "shell" ->
                    <<[k |-> "shell", at |-> g.i,
                       fn |-> IF st.elide THEN "gengo_shell_elide"
                              ELSE "gengo_shell"]>>
              [] st.k = "range" ->
                    <<[k |-> "range", at |-> g.i, header |-> rangeHeader(st)]>>
              [] st.k = "for" ->
                    <<[k |-> "for", at |-> g.i, header |-> forHeader(st)]>>
              [] OTHER -> <<>>
    IN  [g EXCEPT !.p = [el.p EXCEPT !.buf.init = @ \o lines],
                  !.i = @ + 1]

\* printer.printBuiltins (lines 282-305)
printBuiltins(g) ==
    LET fn(b) == IF b \in g.builtins THEN <<[k |-> "builtin", name |-> b]>>
                 ELSE <<>>
    IN  [g EXCEPT !.p.buf.funcs = @ \o fn("print") \o fn("printf") \o fn("errorf"),
                  !.toElide = g.p.eliders,
                  !.phase = "eliders"]

\* one iteration of the loop of printEliders (lines 307-356) over the map
\* p.eliders, for the entry e
printElider(g, e) ==
    [g EXCEPT !.toElide = @ \ {e},
              !.p.buf.funcs = @ \o
                 <<[k |-> "elider", name |-> e.name,
                    params |-> IF IsError(e.t) THEN <<"error">> ELSE e.t.elems,
                    quals |-> IF IsError(e.t) THEN <<>>
                              ELSE qualifiers(g.p, e.t.elems)]>>]

\* printer.printShell (lines 216-280) when usesShell (lines 191-193)
printShell(g) ==
    [g EXCEPT !.p.buf.funcs = @ \o
                 (IF g.usesShell
                  THEN [j \in 1..4 |->
                          [k |-> "shim",
                           name |-> <<"shellState", "gengo_shell", "gengo_shell_elide",
                                      "gengo_shell_params">>[j]]]
                  ELSE <<>>),
              !.phase = "format"]

\* goformat.Source (line 195): the import block comes out sorted by path
\* and name with repeated entries dropped, a list without repetition in a
\* fixed order, which the set of its entries stands for; the rest of the
\* text keeps its order
Source(buf) == [buf EXCEPT !.imports = {buf.imports[j] : j \in DOMAIN buf.imports}]

GenWalk ==
    /\ gen.phase = "walk"
    /\ gen' = Walk(gen)
    /\ UNCHANGED scanVars /\ UNCHANGED xp

\* the order of iteration over a map is not fixed: any entry left is next
NameImport ==
    /\ gen.phase = "name"
    /\ \E imp \in gen.importSet : gen' = nameImport(gen, imp)
    /\ UNCHANGED scanVars /\ UNCHANGED xp

PrintImports ==
    /\ gen.phase = "name" /\ gen.importSet = {}
    /\ gen' = printImports(gen)
    /\ UNCHANGED scanVars /\ UNCHANGED xp

\* lines 125-129, one iteration over the map namedImports
PrintNamedImport ==
    /\ gen.phase = "named"
    /\ \E e \in gen.toPrint :
          gen' = [gen EXCEPT !.toPrint = @ \ {e},
                             !.p.buf.imports = Append(@, e)]
    /\ UNCHANGED scanVars /\ UNCHANGED xp

LiftExported ==
    /\ gen.phase = "named" /\ gen.toPrint = {}
    /\ gen' = liftExported(gen)
    /\ UNCHANGED scanVars /\ UNCHANGED xp

PrintStmt ==
    /\ gen.phase = "stmts" /\ gen.i <= Len(gen.prog)
    /\ gen' = printStmt(gen)
    /\ UNCHANGED scanVars /\ UNCHANGED xp

PrintBuiltins ==
    /\ gen.phase = "stmts" /\ gen.i > Len(gen.prog)
    /\ gen' = printBuiltins(gen)
    /\ UNCHANGED scanVars /\ UNCHANGED xp

PrintElider ==
    /\ gen.phase = "eliders"
    /\ \E e \in gen.toElide : gen' = printElider(gen, e)
    /\ UNCHANGED scanVars /\ UNCHANGED xp

PrintShell ==
    /\ gen.phase = "eliders" /\ gen.toElide = {}
    /\ gen' = printShell(gen)
    /\ UNCHANGED scanVars /\ UNCHANGED xp

\* the range clauses the Go parser accepts, in the pieces of rangeHeader
RangeClauses ==
    {<<"for", "range", "x">>,
     <<"for", "k", "=", "range", "x">>,
     <<"for", "k", ":", "=", "range", "x">>,
     <<"for", "k", ",", "v", "=", "range", "x">>,
     <<"for", "k", ",", "v", ":", "=", "range", "x">>}

\* the for clauses the Go parser accepts, in the pieces of forHeader: no
\* clause, a condition alone, or three clauses between two semicolons,
\* each clause in its place or left out
ForClauses ==
    {<<"for">>, <<"for", "c">>}
        \cup {<<"for">> \o init \o <<";">> \o cond \o <<";">> \o post :
                 init \in {<<>>, <<"i">>}, cond \in {<<>>, <<"c">>},
                 post \in {<<>>, <<"p">>}}

\* a Go identifier, in pieces: no piece is a file extension
IsIdent(name) == \A j \in DOMAIN name : name[j] \notin {".ng", ".txt"}

\* the parser of goformat.Source (line 195) accepts the text
SyntaxOK(buf) ==
    /\ IsIdent(buf.pkg)
    /\ \A j \in DOMAIN buf.init :
          /\ buf.init[j].k = "range" => buf.init[j].header \in RangeClauses
          /\ buf.init[j].k = "for" => buf.init[j].header \in ForClauses

\* the text of the buffer, line by line, and the lines numbered from 1
\* as the loop of lines 198-200 prints them
Lines(buf) ==
    <<buf.pkg>> \o buf.imports \o <<buf.main>> \o buf.decls \o buf.init
        \o buf.funcs
Numbered(lines) == [j \in DOMAIN lines |-> [n |-> j, line |-> lines[j]]]

\* the text is returned beside the error
formatPartial(g) ==
    IF SyntaxOK(g.p.buf)
    THEN [g EXCEPT !.res = Source(g.p.buf), !.phase = "returned"]
    ELSE [g EXCEPT !.res = g.p.buf,
                   !.err = Error("gengo: bad generated source",
                                 Numbered(Lines(g.p.buf))),
                   !.phase = "failed"]

\* lines 195-204: the formatted source is returned, or the error of the
\* formatter with the numbered text
format(g) ==
    IF SyntaxOK(g.p.buf)
    THEN [g EXCEPT !.res = Source(g.p.buf), !.phase = "returned"]
    ELSE [g EXCEPT !.res = NilBytes,
                   !.err = Error("gengo: bad generated source",
                                 Numbered(Lines(g.p.buf))),
                   !.phase = "failed"]

Format ==
    /\ gen.phase = "format"
    /\ gen' = format(gen)
    /\ UNCHANGED scanVars /\ UNCHANGED xp

\* the caller runs GenGo once more on the same file and package name
Rerun ==
    /\ gen.phase \in {"returned", "failed"} /\ gen.run = 1
    /\ gen' = GenGo(gen.prog, gen.filename, gen.outGoPkgName, 2, gen.res)
    /\ UNCHANGED scanVars /\ UNCHANGED xp

GenInit ==
    /\ s = newScanner /\ pc = "idle" /\ loc = NoLoc /\ ret = ""
    /\ profile = "shell" /\ sent = 0 /\ hist = NoHist
    /\ xp = XpOff
    /\ \E f \in Families : \E prog \in Progs(f) :
       \E filename \in Filenames(f) : \E outGoPkgName \in PkgNames :
          gen = GenGo(prog, filename, outGoPkgName, 1, NoBuf)

GenNext ==
    \/ GenWalk
    \/ NameImport
    \/ PrintImports
    \/ PrintNamedImport
    \/ LiftExported
    \/ PrintStmt
    \/ PrintBuiltins
    \/ PrintElider
    \/ PrintShell
    \/ Format
    \/ Rerun

GenSpec == GenInit /\ [][GenNext]_vars

----------------------------------------------------------------------------
(* ExpandParams: the expansion of $ parameters in a shell word             *)

\* an argument of ExpandParams has at most MaxArg bytes
MaxArg == 3

\* the bytes of an argument, and the arguments
ArgBytes == {"$", "{", "}", "x", "y", "'", "\\", " "}
Args == UNION {[1..n -> ArgBytes] : n \in 1..MaxArg}

\* the parameter sets: the values of x and y, "" for every other name
ParamSets ==
    [{"x", "y"} -> {<<>>, <<"v">>, <<"$", "x">>, <<"$", "{", "x", "}">>,
                    <<"$", "y">>}]

\* params.Get(name)
Get(params, name) ==
    IF Len(name) = 1 /\ name[1] \in DOMAIN params THEN params[name[1]]
    ELSE <<>>

RECURSIVE indexParamFrom(_, _, _, _)
\* the loop of indexParam (lines 1015-1033) from the byte i on
indexParamFrom(str, i, prevSlash, inQuote) ==
    IF i >= Len(str) THEN -1
    ELSE LET v == str[i + 1] IN
         IF inQuote THEN indexParamFrom(str, i + 1, prevSlash, v # "'")
         ELSE IF ~prevSlash /\ v = "$" THEN i
         ELSE indexParamFrom(str, i + 1, v = "\\", ~prevSlash /\ v = "'")

\* indexParam (lines 1012-1036): the index of the first $ quoted neither
\* with '' nor with a backslash, or -1
indexParam(str) == indexParamFrom(str, 0, FALSE, FALSE)

\* the value of i after "for i, r = range str" with a break at the first
\* r for which stop holds, i decremented there (lines 888-893, 933-938);
\* stop[j] tells whether it holds for the byte j of str
RangeUntil(stop) ==
    LET hits == {j \in 0..(Len(stop) - 1) : stop[j + 1]}
    IN  IF hits = {} THEN Len(stop) - 1
        ELSE (CHOOSE j \in hits : \A h \in hits : j <= h) - 1

\* expandBraceParam (lines 885-905) on arg, which begins with "${": the
\* string returned, an error, or a panic of the slice arg[end+1:]
expandBraceParam(arg, params) ==
    LET str == Slice(arg, 1, Len(arg))
        i2 == RangeUntil([j \in DOMAIN str |-> str[j] = "}"])
        end == 1 + i2 + 1
    IN  IF i2 = -1
        THEN [k |-> "err", v |-> <<>>]
        ELSE IF ~SliceOK(arg, 2, end) \/ ~SliceOK(arg, end + 1, Len(arg))
        THEN [k |-> "panic", v |-> <<>>]
        ELSE [k |-> "ok",
              v |-> Get(params, Slice(arg, 2, end))
                       \o Slice(arg, end + 1, Len(arg))]

\* ExpandParams(arg, params) is called (lines 908-909)
ExpandParams(arg, params) ==
    [phase |-> "loop", arg |-> arg, skip |-> 0, params |-> params,
     in |-> arg, brace |-> <<>>, res |-> <<>>, err |-> "", via |-> "",
     out |-> <<>>]

\* ExpandParams returns
expanded(x, res, err) == [x EXCEPT !.phase = "returned", !.res = res, !.err = err]

\* one iteration of the loop of ExpandParams (lines 910-946), and the
\* return of line 947 when the loop is left
ExpandStep(x) ==
    LET arg == x.arg
        i0 == indexParam(Slice(arg, x.skip, Len(arg)))
        i1 == i0 + x.skip
    IN
    IF i0 = -1 \/ Len(arg) = i1 + 1 THEN expanded(x, arg, "")
    ELSE IF arg[i1 + 2] = "{"
    THEN LET rest == Slice(arg, i1, Len(arg))
             r == expandBraceParam(rest, x.params)
             x1 == [x EXCEPT !.brace = rest]
         IN  CASE r.k = "err" ->
                    expanded(x1, <<>>, "invalid braced parameter expansion")
               [] r.k = "panic" -> [x1 EXCEPT !.phase = "panic"]
               [] OTHER -> [x1 EXCEPT !.arg = Slice(arg, 0, i1) \o r.v]
    ELSE IF ~IsLetter(arg[i1 + 2]) /\ ~IsDigit(arg[i1 + 2])
    THEN [x EXCEPT !.skip = i1 + 1]
    ELSE LET str == Slice(arg, i1 + 1, Len(arg))
             i2 == RangeUntil([j \in DOMAIN str |->
                                  ~IsLetter(str[j]) /\ ~IsDigit(str[j])])
             end == i1 + 1 + i2 + 1
         IN  IF i2 = -1 THEN expanded(x, <<>>, "invalid $ parameter")
             ELSE [x EXCEPT !.arg = Slice(arg, 0, i1)
                                      \o Get(x.params, Slice(arg, i1 + 1, end))
                                      \o Slice(arg, end, Len(arg))]

ExpandIter ==
    /\ xp.phase = "loop"
    /\ xp' = ExpandStep(xp)
    /\ UNCHANGED scanVars /\ UNCHANGED gen

RECURSIVE quoteUnescaper(_)
\* quoteUnescaper.Replace (line 785): a backslash before a double quote
\* or a backquote is dropped
quoteUnescaper(v) ==
    IF v = <<>> THEN <<>>
    ELSE IF Len(v) >= 2 /\ v[1] = "\\" /\ v[2] \in {"\"", Backquote}
    THEN <<v[2]>> \o quoteUnescaper(SubSeq(v, 3, Len(v)))
    ELSE <<v[1]>> \o quoteUnescaper(Tail(v))

\* expansion (lines 743-783) of the one argument "body" in double quotes:
\* the expanders pass it on as it is (lines 751-753) and the last loop
\* hands it to ExpandParams (line 771)
expansion(body, params) ==
    [ExpandParams(<<"\"">> \o body \o <<"\"">>, params)
        EXCEPT !.via = "expansion"]

\* lines 772-778: the error of ExpandParams is returned, or the value
\* without its first and last byte, unescaped
unquote(x) ==
    IF x.err # "" THEN [x EXCEPT !.phase = "failed"]
    ELSE IF ~SliceOK(x.res, 1, Len(x.res) - 1) THEN [x EXCEPT !.phase = "panic"]
    ELSE [x EXCEPT !.phase = "expanded",
                   !.out = quoteUnescaper(Slice(x.res, 1, Len(x.res) - 1))]

Unquote ==
    /\ xp.phase = "returned" /\ xp.via = "expansion"
    /\ xp' = unquote(xp)
    /\ UNCHANGED scanVars /\ UNCHANGED gen

RECURSIVE indexUnquotedFrom(_, _, _, _, _)
\* the loop of indexUnquoted (lines 988-1006) from the byte i on; inBlock
\* is the quote that is open, or "" for -1
indexUnquotedFrom(str, r, i, prevSlash, inBlock) ==
    IF i >= Len(str) THEN -1
    ELSE LET v == str[i + 1] IN
         IF inBlock # ""
         THEN indexUnquotedFrom(str, r, i + 1, prevSlash,
                                IF v = inBlock THEN "" ELSE inBlock)
         ELSE IF ~prevSlash /\ v = r THEN i
         ELSE indexUnquotedFrom(str, r, i + 1, v = "\\",
                                IF ~prevSlash /\ v \in {"'", "\""} THEN v
                                ELSE "")

\* indexUnquoted (lines 985-1009)
indexUnquoted(str, r) == indexUnquotedFrom(str, r, 0, FALSE, "")

\* the first "{" of arg, looked for from start on, that is not quoted and
\* does not follow "$", or -1 (the loop of lines 801-811)
RECURSIVE firstBrace(_, _)
firstBrace(arg, start) ==
    LET i0 == indexUnquoted(Slice(arg, start, Len(arg)), "{")
        i1 == i0 + start
    IN  IF i0 = -1 THEN -1
        ELSE IF i1 = 0 \/ arg[i1] # "$" THEN i1
        ELSE firstBrace(arg, i1 + 1)

\* fmt.Sscanf(str, "{%d..%d}", &start, &end) of line 821, for numbers of
\* one digit: the two numbers, or <<>> when str does not match
Sscanf(str) ==
    IF /\ Len(str) = 6 /\ str[1] = "{" /\ str[2] \in Digits /\ str[3] = "."
       /\ str[4] = "." /\ str[5] \in Digits /\ str[6] = "}"
    THEN LET n(d) == CHOOSE k \in 0..9 : ToString(k) = d
         IN  <<n(str[2]), n(str[5])>>
    ELSE <<>>

RECURSIVE braceExpand(_, _)
RECURSIVE braceExpandRange(_, _, _, _, _)
RECURSIVE braceExpandList(_, _, _, _)

\* the loops of lines 825-833: the numbers from i to end, up or down
braceExpandRange(res, prefix, suffix, i, end) ==
    LET r1 == braceExpand(res, prefix \o <<ToString(i)>> \o suffix)
    IN  IF i = end THEN r1
        ELSE braceExpandRange(r1, prefix, suffix,
                              IF i > end THEN i - 1 ELSE i + 1, end)

\* the loop of lines 836-845 over what is left of the list, arg
braceExpandList(res, prefix, suffix, arg) ==
    IF Len(arg) = 0 THEN res
    ELSE LET c == indexUnquoted(arg, ",") IN
         IF c = -1 THEN braceExpand(res, prefix \o arg \o suffix)
         ELSE braceExpandList(
                  braceExpand(res, prefix \o Slice(arg, 0, c) \o suffix),
                  prefix, suffix, Slice(arg, c + 1, Len(arg)))

\* braceExpand (lines 798-847): the words of src and then those of arg
braceExpand(src, arg) ==
    LET i1 == firstBrace(arg, 0)
        i2 == indexUnquoted(Slice(arg, i1, Len(arg)), "}")
        prefix == Slice(arg, 0, i1)
        suffix == Slice(arg, i1 + i2 + 1, Len(arg))
    IN  IF i1 = -1 THEN Append(src, arg)
        ELSE IF i2 = -1 THEN Append(src, arg)
        ELSE IF indexUnquoted(arg, ",") = -1
        THEN LET n == Sscanf(Slice(arg, i1, i1 + i2 + 1))
             IN  IF n = <<>> THEN Append(src, arg)
                 ELSE braceExpandRange(src, prefix, suffix, n[1], n[2])
        ELSE braceExpandList(src, prefix, suffix, Slice(arg, i1 + 1, i1 + i2))

\* the arguments of braceExpand: a list of two or three words in braces
\* between a prefix and a suffix, a range of numbers, and the arguments
\* of ExpandParams
Pieces == {<<>>, <<"c">>, <<"d">>, <<"$">>, <<"'">>, <<"\\">>}
BraceList(pre, as, suf) ==
    pre \o <<"{">> \o as[1]
        \o (IF Len(as) > 1 THEN <<",">> \o as[2] ELSE <<>>)
        \o (IF Len(as) > 2 THEN <<",">> \o as[3] ELSE <<>>)
        \o <<"}">> \o suf
BraceArgs ==
    {BraceList(pre, as, suf) :
        pre \in Pieces, as \in [1..2 -> Pieces] \cup [1..3 -> Pieces],
        suf \in Pieces}
      \cup {<<"c", "{", "1", ".", ".", "3", "}">>, <<"{", "2", ".", ".", "1", "}", "d">>}
      \cup Args

\* a call of indexUnquoted or of braceExpand, and its return
FnCall(fn, args) == [phase |-> "call", fn |-> fn, args |-> args, out |-> <<>>]

IndexUnquoted ==
    /\ xp.phase = "call" /\ xp.fn = "indexUnquoted"
    /\ xp' = [xp EXCEPT !.phase = "result",
                        !.out = indexUnquoted(xp.args[1], xp.args[2])]
    /\ UNCHANGED scanVars /\ UNCHANGED gen

BraceExpand ==
    /\ xp.phase = "call" /\ xp.fn = "braceExpand"
    /\ xp' = [xp EXCEPT !.phase = "result",
                        !.out = braceExpand(xp.args[1], xp.args[2])]
    /\ UNCHANGED scanVars /\ UNCHANGED gen

ExpInit ==
    /\ s = newScanner /\ pc = "idle" /\ loc = NoLoc /\ ret = ""
    /\ profile = "shell" /\ sent = 0 /\ hist = NoHist
    /\ gen = GenOff
    /\ \/ \E arg \in Args : \E params \in ParamSets :
             xp = ExpandParams(arg, params)
       \/ \E arg \in Args : \E params \in ParamSets :
             xp = expansion(arg, params)
       \/ \E arg \in Args : \E r \in {"{", "}"} :
             xp = FnCall("indexUnquoted", <<arg, r>>)
       \/ \E src \in {<<>>, <<(<<"w">>)>>} : \E arg \in BraceArgs :
             xp = FnCall("braceExpand", <<src, arg>>)

ExpNext ==
    \/ ExpandIter
    \/ Unquote
    \/ IndexUnquoted
    \/ BraceExpand

ExpSpec == ExpInit /\ [][ExpNext]_vars

----------------------------------------------------------------------------
(* Claims about the scanner                                                *)

RECURSIVE Returns(_, _)
\* the thread m, which no longer receives input, reaches the return of
\* Next(): it does not when it panics or comes back to a state it has been
\* in, since its steps are deterministic
Returns(m, seen) ==
    IF m.pc = "idle" THEN TRUE
    ELSE IF m \in seen \/ m.pc \in {"panic", "needSrc", "addSrc"} THEN FALSE
    ELSE Returns(ScanStep(m), seen \cup {m})

\* C1: once the driver has answered with nil (s.r is -1 from then on), a
\* call of Next() returns after finitely many steps, in language mode and
\* in shell mode
C1_NextReturnsAfterEOF ==
    (pc = "idle" /\ s.r = EOF) => Returns(enterNext(s), {})

\* the token kinds after which the claim expects a line break to end the
\* statement
Terminating ==
    {"Ident", "Int", "Float", "Imaginary", "String", "Rune", "Break",
     "Continue", "Fallthrough", "Return", "Inc", "Dec", "RightParen",
     "RightBracket", "RightBrace", "RightBraceTable", "Shell"}

\* C2: when a call of Next() in language mode has met a line break, it
\* returns the Semicolon of that line break if and only if the token
\* returned before it, comments left aside, was a statement-terminating one
C2_SemicolonIffTerminating ==
    (pc = "idle" /\ hist.sawNL) =>
        (hist.nlSemi <=> hist.before \in Terminating)

\* C3: a ShellWord returned with the exitingShell latch set has as literal
\* the source text that ends right before the closing pair of dollars, the
\* scanner stands on the second dollar, the call that follows returns Shell,
\* consumes that one dollar and leaves shell mode, and a ShellWord returned
\* without the latch is not followed by a dollar that closes the fragment
C3_WordBeforeShellEnd ==
    pc = "idle" =>
        /\ s.exitingShell =>
              /\ s.Token = "ShellWord" /\ s.inShell /\ s.r = "$"
              /\ s.Literal.kind = "string" /\ Len(s.Literal.v) >= 1
              /\ s.Offset - 1 - Len(s.Literal.v) >= 0
              /\ s.Literal.v =
                    Slice(s.src, s.Offset - 1 - Len(s.Literal.v), s.Offset - 1)
              /\ s.src[s.Offset] = "$" /\ s.src[s.Offset + 1] = "$"
        /\ hist.prevExiting =>
              /\ s.Token = "Shell" /\ ~s.inShell /\ ~s.exitingShell
              /\ s.Offset = hist.prevOffset + 1
        /\ (s.Token = "ShellWord" /\ s.inShell /\ ~s.exitingShell
              /\ s.Literal.kind = "string" /\ Len(s.Literal.v) >= 1
              /\ s.Literal.v[Len(s.Literal.v)] = "$") => s.r # "$"

\* C3 witness: the call after a word that ran into the closing pair has
\* returned the Shell token
C3_Witness ==
    pc = "idle" /\ hist.prevExiting /\ s.Token = "Shell" /\ hist.before = "ShellWord"

\* C4: between calls of Next() the scanner is in shell mode exactly when
\* the number of Shell tokens returned so far is odd
C4_ShellModeParity ==
    pc = "idle" => (s.inShell <=> hist.shellOdd)

----------------------------------------------------------------------------
(* Claims about GenGo                                                      *)

\* C5: two runs of GenGo on the same source file and package name return
\* the same bytes
C5_SameOutputTwice ==
    (gen.phase = "returned" /\ gen.run = 2) => gen.res = gen.first

\* the entries of a section of the returned source that are of kind k
Emitted(section, k) == {j \in DOMAIN section : section[j].k = k}

\* C6: the returned source holds the shell shim and its imports if and only
\* if the source file has a shell fragment, and whenever it holds a call of
\* gengo_shell or gengo_shell_elide it holds the shim's four definitions
C6_ShimIffShellFragment ==
    gen.phase = "returned" =>
        LET fragment == \E j \in DOMAIN gen.prog : gen.prog[j].k = "shell"
            shim == {gen.res.funcs[j].name : j \in Emitted(gen.res.funcs, "shim")}
            runtime == [name |-> <<>>, path |-> Path("neugram.io/ng/eval", <<"shell">>)]
        IN  /\ shim # {} <=> fragment
            /\ runtime \in gen.res.imports <=> fragment
            /\ Emitted(gen.res.init, "shell") # {} =>
                  shim = {"shellState", "gengo_shell", "gengo_shell_elide",
                          "gengo_shell_params"}

\* C7: the returned source has as many gengo_elider helpers as the elided
\* calls of the source file have distinct result shapes, and two elided
\* calls are wrapped in the same helper exactly when their shapes are equal
C7_OneEliderPerShape ==
    gen.phase = "returned" =>
        LET elided == {j \in DOMAIN gen.prog :
                          gen.prog[j].k = "call" /\ gen.prog[j].elide}
            wrap(j) == (CHOOSE l \in {gen.res.init[n] : n \in DOMAIN gen.res.init} :
                           l.at = j).wrap
        IN  /\ Cardinality(Emitted(gen.res.funcs, "elider"))
                  = Cardinality({gen.prog[j].typ.elems : j \in elided})
            /\ \A i, j \in elided :
                  wrap(i) = wrap(j) <=> gen.prog[i].typ.elems = gen.prog[j].typ.elems

\* the import paths of the source file, and the entries of the returned
\* import block that name the path q
UserPaths == {gen.prog[j].path : j \in {j \in DOMAIN gen.prog : gen.prog[j].k = "import"}}
EntriesOf(q) == {e \in gen.res.imports : e.path = q}

\* e.name is gengoimp_<basename> or gengoimp_<basename>_<n>
AliasForm(e) ==
    LET n == Len(e.path.base) + 1 IN
    /\ Len(e.name) >= n
    /\ SubSeq(e.name, 1, n) = <<"gengoimp">> \o e.path.base
    /\ \/ Len(e.name) = n
       \/ Len(e.name) = n + 1 /\ e.name[n + 1] \in {ToString(i) : i \in 1..(MaxStmts + 1)}

\* C8 as stated: the returned import block holds every import path of the
\* source file exactly once
C8_EachUserPathOnce ==
    gen.phase = "returned" => \A q \in UserPaths : Cardinality(EntriesOf(q)) = 1

\* C8 as amended: the returned import block holds for every import path of
\* the source file exactly one entry with an alias, however many import
\* statements name the path, the alias has the form gengoimp_<basename> or
\* gengoimp_<basename>_<n>, and two paths never have the same alias
C8_EachUserPathAliasedOnce ==
    gen.phase = "returned" =>
        LET aliased(q) == {e \in EntriesOf(q) : e.name # <<>>} IN
        /\ \A q \in UserPaths :
              /\ Cardinality(aliased(q)) = 1
              /\ \A e \in aliased(q) : AliasForm(e)
        /\ \A q1, q2 \in UserPaths :
              \A e1 \in aliased(q1) : \A e2 \in aliased(q2) :
                 e1.name = e2.name => q1 = q2
        /\ \A e \in gen.res.imports : e.name # <<>> => e.path \in UserPaths

\* C8 witness: a source file that names one path in two import statements
\* and another path with the same base name has been emitted
C8_Witness ==
    /\ gen.phase = "returned"
    /\ \E i, j \in DOMAIN gen.prog :
          i < j /\ gen.prog[i].k = "import" /\ gen.prog[i] = gen.prog[j]
    /\ \E q1, q2 \in UserPaths : q1 # q2 /\ q1.base = q2.base

\* C9: for every methodik declaration of the source file the returned
\* source declares the type and defines each of its methods
C9_MethodikLifted ==
    gen.phase = "returned" =>
        \A j \in {j \in DOMAIN gen.prog : gen.prog[j].k = "methodik"} :
            LET m == gen.prog[j] IN
            /\ [kind |-> "type", name |-> m.name]
                  \in {gen.res.decls[n] : n \in DOMAIN gen.res.decls}
            /\ \A n \in DOMAIN m.methods :
                  \E d \in DOMAIN gen.res.decls :
                     /\ gen.res.decls[d].kind = "method"
                     /\ gen.res.decls[d].name = <<m.name, m.methods[n]>>

\* C10: an assignment is emitted with := exactly when it declares and one
\* of its left-hand sides, at any position, is an unexported identifier
C10_DefineIffUnexported ==
    gen.phase = "returned" =>
        \A n \in Emitted(gen.res.init, "assign") :
            LET st == gen.prog[gen.res.init[n].at] IN
            gen.res.init[n].op = ":="
               <=> (st.decl /\ \E i \in DOMAIN st.left :
                                   st.left[i].ident /\ ~isExported(st.left[i].name))


\* the call of GenGo has returned
Returned == gen.phase \in {"returned", "failed"}

\* C11: GenGo returns either the generated bytes and no error, or no bytes
\* and an error, never both and never a part of the output: nothing is
\* returned as output when the path does not resolve or the package does
\* not check, and when the formatter rejects the text the bytes are nil
\* and the error carries the generated text with its lines numbered.
C11_BytesOrError ==
    Returned =>
        /\ (gen.res = NilBytes) # (gen.err = NoErr)
        /\ ~(gen.filename.abs /\ gen.filename.checks) => gen.res = NilBytes
        /\ gen.res # NilBytes =>
              gen.i > Len(gen.prog) /\ gen.res = Source(gen.p.buf)
        /\ (gen.i > Len(gen.prog) /\ ~SyntaxOK(gen.p.buf)) =>
              /\ gen.res = NilBytes
              /\ gen.err.lines = Numbered(Lines(gen.p.buf))
              /\ \A j \in DOMAIN gen.err.lines : gen.err.lines[j].n = j

\* the formatter has rejected a text of several lines
C11_Witness ==
    /\ gen.phase = "failed" /\ gen.res = NilBytes
    /\ Len(gen.err.lines) > 3


\* the pcs at which the goroutine of Next() is about to take a step
Scanning == pc \notin {"idle", "needSrc", "addSrc", "panic"}

\* the thread m with the stored error left out
ErrLess(m) == [m EXCEPT !.s.err = ""]

\* C12: once a lexical error is stored on the scanner no later step clears
\* it, and the steps of Next() go on as they would without the error: the
\* step taken from a state with an error is the step taken from the same
\* state without it, the error apart.
C12_ErrorKeptScanGoesOn ==
    [][s.err # "" =>
          /\ s'.err # ""
          /\ Scanning => ErrLess(ScanStep(Cur)) = ErrLess(ScanStep(ErrLess(Cur)))]_vars

\* a call of Next() made with an error stored has consumed input and
\* returned a token, the error still stored
C12_Witness ==
    /\ pc = "idle" /\ hist.prevErr /\ s.err # ""
    /\ s.Offset > hist.prevOffset
    /\ s.Token = "Ident"


\* C13: a comment does not change the latch of semicolon insertion: when a
\* token T is followed by a comment (or several) and then a line break,
\* the call that meets the line break returns Semicolon there exactly
\* when the latch was set after T, which is when a line break right
\* after T returns Semicolon.
C13_CommentKeepsLatch ==
    /\ (pc = "idle" /\ hist.comment) => s.semi = hist.latch
    /\ (pc = "idle" /\ hist.afterT # "none" /\ hist.sawNL) =>
          (hist.nlSemi <=> hist.afterT = "semi")

\* a string literal, a comment, and a Semicolon returned at the line break
C13_Witness ==
    /\ pc = "idle" /\ hist.afterT = "semi" /\ hist.sawNL /\ hist.nlSemi
    /\ hist.before = "String" /\ s.Token = "Semicolon"


\* what the claim C14 expects in func init for one top-level statement:
\* its own output, then a discard for each identifier other than "_" on
\* the left of a declaring assignment
InitLine(k, name) == [k |-> k, name |-> name]
InitLinesOf(st) ==
    CASE st.k = "assign" ->
            LET ids == IF st.decl
                       THEN SelectSeq(st.left,
                                LAMBDA e : e.ident /\ e.name # <<"_">>)
                       ELSE <<>>
            IN  <<InitLine("assign", <<>>)>>
                   \o [j \in 1..Len(ids) |-> InitLine("discard", ids[j].name)]
      [] st.k \in {"call", "shell", "range", "for"} -> <<InitLine(st.k, <<>>)>>
      [] OTHER -> <<>>

RECURSIVE InitLinesUpTo(_, _)
InitLinesUpTo(prog, n) ==
    IF n = 0 THEN <<>>
    ELSE InitLinesUpTo(prog, n - 1) \o InitLinesOf(prog[n])

\* C14: func init holds the output of the top-level statements in source
\* order, each declaring assignment followed at once by one discard line
\* for each identifier on its left other than "_", from left to right,
\* and no discard line after anything else.
C14_InitInOrderWithDiscards ==
    LET init == gen.p.buf.init
    IN  [j \in DOMAIN init |->
            InitLine(init[j].k,
                     IF init[j].k = "discard" THEN init[j].name ELSE <<>>)]
          = InitLinesUpTo(gen.prog, gen.i - 1)

\* a file of several statements has been translated, among them a
\* declaring assignment to "_" and to a variable
C14_Witness ==
    /\ gen.phase = "returned" /\ Len(gen.prog) >= 2
    /\ \E j \in DOMAIN gen.prog :
          /\ gen.prog[j].k = "assign" /\ gen.prog[j].decl
          /\ Len(gen.prog[j].left) = 2
          /\ gen.prog[j].left[1].name = <<"_">>
    /\ \E j \in DOMAIN gen.prog :
          gen.prog[j].k = "assign" /\ ~gen.prog[j].decl


\* C15: a range statement is printed as "for", the key if there is one,
\* ", value" if there is one, ":=" when it declares and "=" when not (no
\* operator when there is neither key nor value), "range" and the
\* expression; and the header is well formed whichever of key, value and
\* declaration flag are there.
C15_RangeHeaderWellFormed ==
    \A j \in DOMAIN gen.p.buf.init :
        LET line == gen.p.buf.init[j] IN
        line.k = "range" =>
           LET st == gen.prog[line.at] IN
           /\ line.header =
                 <<"for">> \o st.key
                    \o (IF st.val # <<>> THEN <<",">> \o st.val ELSE <<>>)
                    \o (IF st.key = <<>> /\ st.val = <<>> THEN <<>>
                        ELSE IF st.decl THEN <<":", "=">> ELSE <<"=">>)
                    \o <<"range", "x">>
           /\ line.header \in RangeClauses

\* C16: with an empty target package name the package clause names
\* gengo_<base>, <base> being the base name of the file with its
\* extension removed, whatever the extension.
C16_PkgNameWithoutExtension ==
    (gen.outGoPkgName = <<>> /\ gen.filename.abs /\ gen.filename.checks) =>
        gen.p.buf.pkg = <<"gengo_">> \o gen.filename.base


\* C17: the scanner sends on needSrc only from next(), with the buffer
\* exhausted and end of input not yet received; a request is followed by
\* one receive on addSrc, after which scanning goes on without another
\* request in between; once nil has been received (s.r = -1) it stays so
\* and no request is sent again.
C17_RequestOnlyWhenExhausted ==
    [][/\ pc' = "needSrc" =>
             /\ Scanning
             /\ s'.off = s.off /\ s'.src = s.src /\ s'.r = s.r
             /\ s.off >= Len(s.src) /\ s.r # EOF
       /\ pc = "needSrc" => (pc' = "addSrc" /\ s' = s)
       /\ pc = "addSrc" =>
             /\ pc' \notin {"needSrc", "addSrc", "idle"}
             /\ s'.r = EOF \/ Len(s'.src) >= Len(s.src)
       /\ s.r = EOF => (s'.r = EOF /\ pc' \notin {"needSrc", "addSrc"})]_vars

\* two chunks were asked for and received, then nil, and Next() is called
\* again after end of input
C17_Witness ==
    s.r = EOF /\ sent >= 2 /\ pc = "skipWhitespace" /\ hist.lastTok = "Ident"


\* C20: whatever chunks the driver sends on addSrc, chunks of length zero
\* that are not nil among them, next() reads s.src[s.off] only with
\* s.off < len(s.src): no refill ends in a read out of range.
C20_ReadInsideBuffer == pc = "panic" => s.off < Len(s.src)


----------------------------------------------------------------------------
(* Claims about ExpandParams                                               *)

RECURSIVE Halts(_, _)
\* the loop, which has no input but its state, leaves x without coming
\* back to a state it was in
Halts(x, seen) ==
    IF x.phase # "loop" THEN TRUE
    ELSE IF x \in seen THEN FALSE
    ELSE Halts(ExpandStep(x), seen \cup {x})

\* C18: ExpandParams terminates for every argument and every parameter
\* set, also when a value holds a reference $name or ${name}, be it to
\* its own name.
C18_ExpandParamsTerminates == xp.phase = "loop" => Halts(xp, {})

\* arg begins with "${" and holds no "}"
Unclosed(arg) ==
    /\ Len(arg) >= 2 /\ arg[1] = "$" /\ arg[2] = "{"
    /\ \A j \in DOMAIN arg : arg[j] # "}"

\* C19: when the argument holds "${" with no "}" after it, ExpandParams
\* returns the error "invalid braced parameter expansion" and the empty
\* string; it does not panic and slices nothing out of bounds.
C19_UnclosedBraceIsAnError ==
    /\ xp.phase # "panic"
    /\ (xp.phase = "returned" /\ Unclosed(xp.brace)) =>
          /\ xp.err = "invalid braced parameter expansion"
          /\ xp.res = <<>>


----------------------------------------------------------------------------
(* Further claims about the scanner                                        *)

\* C21: every call of Next() made in language mode assigns s.Token from
\* the input it consumed: when it returns, s.Token is not what the call
\* before left there for want of an assignment, as it would be after a
\* "$" that no "$" follows or after ".." that no third "." follows.
C21_TokenAssignedByEveryCall ==
    (pc = "idle" /\ ~hist.prevInShell) => hist.assigned


\* the number of backslashes in a row that end just before the byte j of
\* src (counted from 0), none of them before the byte start
RECURSIVE BackslashesBefore(_, _, _)
BackslashesBefore(src, start, j) ==
    IF j > start /\ src[j] = "\\"
    THEN 1 + BackslashesBefore(src, start, j - 1) ELSE 0

\* the index of the first double quote at or after start that an even
\* number of backslashes precedes, or -1
FirstClosingQuote(src, start) ==
    LET qs == {j \in start..(Len(src) - 1) :
                  /\ src[j + 1] = "\""
                  /\ BackslashesBefore(src, start, j) % 2 = 0}
    IN  IF qs = {} THEN -1 ELSE CHOOSE j \in qs : \A q \in qs : j <= q

\* C22: scanString ends a double-quoted literal at the first double quote
\* that is not escaped, a backslash escaping the one byte after it: a
\* quote after an even number of backslashes in a row closes the literal
\* (without the error of a missing terminator), one after an odd number
\* does not.
C22_StringEndsAtFirstUnescapedQuote ==
    (pc = "idle" /\ hist.from \in ScanStringPcs /\ s.Literal.kind = "string") =>
        LET body == SubSeq(s.Literal.v, 2, Len(s.Literal.v) - 1)
            start == s.Offset - 1 - Len(body)
            q == FirstClosingQuote(s.src, start)
        IN  (/\ start >= 0 /\ q # -1
             /\ \A j \in start..q : s.src[j + 1] # "\n") =>
                /\ s.Offset = q + 1
                /\ body = Slice(s.src, start, q)
                /\ ~hist.prevErr =>
                      s.err # "string literal missing terminating quote"


\* the bytes of the shell word w from the byte i on are escaped bytes,
\* "${" segments closed by "}" and bytes that end no word; open tells
\* that i stands inside a segment
RECURSIVE WordOK(_, _, _)
WordOK(w, i, open) ==
    IF i > Len(w) THEN ~open
    ELSE IF open THEN WordOK(w, i + 1, w[i] # "}")
    ELSE IF w[i] = "\\" THEN WordOK(w, i + 2, FALSE)
    ELSE IF w[i] = "$" /\ i < Len(w) /\ w[i + 1] = "{" THEN WordOK(w, i + 2, TRUE)
    ELSE w[i] \notin ShellMeta /\ WordOK(w, i + 1, FALSE)

\* C26: in a shell word a segment from "${" to "}" is consumed up to its
\* "}" as part of the word: blanks and shell metacharacters inside the
\* segment do not end the word, and the text right before and right after
\* the segment is in the same ShellWord, which ends only at a blank, a
\* metacharacter or "$$" outside of any segment.
C26_BraceSegmentInOneWord ==
    (pc = "idle" /\ hist.from \in ScanShellWordPcs /\ s.Token = "ShellWord") =>
        /\ WordOK(s.Literal.v, 1, FALSE)
        /\ s.exitingShell \/ s.r \in ShellMeta


\* the byte j of v begins a reference $name or ${name}, name being one
\* of names, that no backslash precedes
RefAt(v, j, names) ==
    /\ v[j] = "$" /\ j < Len(v)
    /\ \/ v[j + 1] \in names
       \/ v[j + 1] = "{" /\ \E k \in (j + 2)..Len(v) : v[k] = "}"
    /\ (j = 1 \/ v[j - 1] # "\\")

\* C23: in an argument in double quotes handed to expansion every $name
\* and ${name} that no backslash precedes is replaced by the value of the
\* parameter, whatever apostrophes the argument holds: with values that
\* hold neither "$" nor a name, the expanded argument has no such
\* reference left.
C23_QuotedParamsExpanded ==
    (/\ xp.phase = "expanded"
     /\ \A n \in DOMAIN xp.params : xp.params[n] \in {<<>>, <<"v">>}) =>
        \A j \in DOMAIN xp.out : ~RefAt(xp.out, j, DOMAIN xp.params)


\* the byte j of str (counted from 1) stands between two quotes of one kind
Between(str, j) ==
    \E a \in 1..(j - 1) : \E b \in (j + 1)..Len(str) :
        str[a] \in {"'", "\""} /\ str[b] = str[a]

\* the byte j of str is an r that neither follows a backslash nor stands
\* between two quotes
Unquoted(str, r, j) ==
    /\ str[j] = r
    /\ j = 1 \/ str[j - 1] # "\\"
    /\ ~Between(str, j)

\* C27: indexUnquoted returns the index of an r that does not directly
\* follow a backslash, no later than the first r that neither follows a
\* backslash nor stands between a pair of quotes, and returns -1 only when
\* the string has no such r.
C27_IndexOfFirstUnquoted ==
    (xp.phase = "result" /\ xp.fn = "indexUnquoted") =>
        LET str == xp.args[1]
            r   == xp.args[2]
        IN  /\ xp.out # -1 =>
                /\ xp.out \in 0..(Len(str) - 1)
                /\ str[xp.out + 1] = r
                /\ xp.out = 0 \/ str[xp.out] # "\\"
            /\ \A j \in DOMAIN str :
                  Unquoted(str, r, j) => xp.out # -1 /\ xp.out <= j - 1

\* the words without a brace, a comma, a dollar, a quote or a backslash
PlainPieces == {p \in Pieces : \A j \in DOMAIN p : p[j] \in Letters}

\* the argument has no brace pair to expand: no "{", or no "}", or one "{"
\* only and that one directly after a "$"
NoBracePair(arg) ==
    LET open == {j \in DOMAIN arg : arg[j] = "{"}
    IN  \/ open = {}
        \/ \A j \in DOMAIN arg : arg[j] # "}"
        \/ Cardinality(open) = 1 /\ \A j \in open : j > 1 /\ arg[j - 1] = "$"

\* C28: braceExpand appends to the words it was given, for an argument
\* prefix{a1,...,an}suffix of plain words (n at least 2), the n words
\* prefix+ai+suffix in order, and for an argument without a brace pair to
\* expand, or whose only "{" directly follows "$", the argument unchanged.
C28_BraceListInOrder ==
    (xp.phase = "result" /\ xp.fn = "braceExpand") =>
        LET src == xp.args[1]
            arg == xp.args[2]
        IN  /\ \A pre \in PlainPieces : \A suf \in PlainPieces :
                \A as \in [1..2 -> PlainPieces] \cup [1..3 -> PlainPieces] :
                  arg = BraceList(pre, as, suf) =>
                      xp.out = src \o [i \in 1..Len(as) |-> pre \o as[i] \o suf]
            /\ NoBracePair(arg) => xp.out = Append(src, arg)

----------------------------------------------------------------------------
(* Further claims about GenGo                                              *)

\* the qualifiers written into the returned source: those of the calls in
\* func init and those of the parameter types of the helpers
Qualifiers ==
    LET lines == {gen.res.init[j] : j \in DOMAIN gen.res.init}
                    \cup {gen.res.funcs[j] : j \in DOMAIN gen.res.funcs}
    IN  UNION {{l.quals[j] : j \in DOMAIN l.quals} :
                  l \in {l \in lines : l.k \in {"call", "elider"}}}

C25_ForHeaderKeepsClauses ==
    \A j \in DOMAIN gen.p.buf.init :
        LET l  == gen.p.buf.init[j]
            st == gen.prog[l.at]
        IN  l.k = "for" =>
              /\ (st.init # <<>> \/ st.post # <<>>) =>
                    l.header = <<"for">> \o st.init \o <<";">> \o st.cond
                                  \o <<";">> \o st.post
              /\ (st.init = <<>> /\ st.post = <<>> /\ st.cond # <<>>) =>
                    l.header = <<"for">> \o st.cond

====
